---- MODULE Spec2Model ----
(***************************************************************************)
(* VentureIQ multi-agent orchestration and synthesis engine.               *)
(*                                                                         *)
(* Numbers.  JavaScript numbers are modelled as integers in a fixed scale  *)
(* that is named at each definition:                                       *)
(*   - amounts of money and counts: whole units;                           *)
(*   - parseFloat results: thousandths (three decimals are kept);          *)
(*   - growth rates (a fraction, 0.25 for "25%"): 1/100000;                *)
(*   - scores, which the code rounds to one decimal: tenths;               *)
(*   - the weighted investment score before rounding: thousandths.         *)
(*                                                                         *)
(* Strings are sequences of one-character strings; a JavaScript value is   *)
(* [t |-> "undefined"], [t |-> "string", s |-> <<..>>], [t |-> "number",   *)
(* n |-> i] or [t |-> "nan"]; an object is a TLA+ record whose DOMAIN is   *)
(* the set of the object's own keys.                                       *)
(***************************************************************************)
EXTENDS Integers, Sequences, FiniteSets, TLC

(***************************************************************************)
(* JavaScript values and strings                                           *)
(***************************************************************************)
Undefined == [t |-> "undefined"]
Str(s) == [t |-> "string", s |-> s]
NumV(n) == [t |-> "number", n |-> n]
NaNV == [t |-> "nan"]
IsNaN(v) == v.t = "nan"

IsString(v) == v.t = "string"
IsNullish(v) == v.t = "undefined"
\* ToBoolean: undefined, "" and 0 are falsy
Truthy(v) ==
  CASE v.t = "undefined" -> FALSE
    [] v.t = "string" -> v.s # <<>>
    [] v.t = "number" -> v.n # 0
    [] OTHER -> FALSE

\* obj.key : undefined when the object has no such key
Get(obj, key) == IF key \in DOMAIN obj THEN obj[key] ELSE Undefined

\* a || b on JavaScript values
OrElse(a, b) == IF Truthy(a) THEN a ELSE b

Digits == {"0", "1", "2", "3", "4", "5", "6", "7", "8", "9"}

DigitVal(c) ==
  CASE c = "0" -> 0 [] c = "1" -> 1 [] c = "2" -> 2 [] c = "3" -> 3
    [] c = "4" -> 4 [] c = "5" -> 5 [] c = "6" -> 6 [] c = "7" -> 7
    [] c = "8" -> 8 [] c = "9" -> 9

\* String.prototype.toLowerCase on one character
LowerChar(c) ==
  CASE c = "A" -> "a" [] c = "B" -> "b" [] c = "C" -> "c" [] c = "D" -> "d"
    [] c = "E" -> "e" [] c = "F" -> "f" [] c = "G" -> "g" [] c = "H" -> "h"
    [] c = "I" -> "i" [] c = "J" -> "j" [] c = "K" -> "k" [] c = "L" -> "l"
    [] c = "M" -> "m" [] c = "N" -> "n" [] c = "O" -> "o" [] c = "P" -> "p"
    [] c = "Q" -> "q" [] c = "R" -> "r" [] c = "S" -> "s" [] c = "T" -> "t"
    [] c = "U" -> "u" [] c = "V" -> "v" [] c = "W" -> "w" [] c = "X" -> "x"
    [] c = "Y" -> "y" [] c = "Z" -> "z"
    [] OTHER -> c

ToLowerCase(s) == [i \in 1..Len(s) |-> LowerChar(s[i])]

\* String.prototype.includes
Includes(s, sub) ==
  \E i \in 0..(Len(s) - Len(sub)) :
    \A j \in 1..Len(sub) : s[i + j] = sub[j]

RECURSIVE Filter(_, _)
Filter(s, keep) ==
  IF s = <<>> THEN <<>>
  ELSE IF Head(s) \in keep THEN <<Head(s)>> \o Filter(Tail(s), keep)
  ELSE Filter(Tail(s), keep)

\* s.replace(/[^\d.]/g, '')
KeepDigitsAndDots(s) == Filter(s, Digits \cup {"."})
\* s.replace(/[^\d]/g, '')
KeepDigits(s) == Filter(s, Digits)

\* s.replace('%', '') : a string pattern replaces the first occurrence only
RECURSIVE ReplaceFirst(_, _)
ReplaceFirst(s, c) ==
  IF s = <<>> THEN <<>>
  ELSE IF Head(s) = c THEN Tail(s)
  ELSE <<Head(s)>> \o ReplaceFirst(Tail(s), c)

RECURSIVE LeadingDigits(_)
LeadingDigits(s) ==
  IF s = <<>> \/ Head(s) \notin Digits THEN <<>>
  ELSE <<Head(s)>> \o LeadingDigits(Tail(s))

RECURSIVE SkipSpaces(_)
SkipSpaces(s) ==
  IF s # <<>> /\ Head(s) = " " THEN SkipSpaces(Tail(s)) ELSE s

RECURSIVE DigitsValue(_)
DigitsValue(ds) ==
  IF ds = <<>> THEN 0
  ELSE 10 * DigitsValue(SubSeq(ds, 1, Len(ds) - 1)) + DigitVal(ds[Len(ds)])

\* const name = value; Body(name): the value is computed once
Const(value, Body(_)) == CHOOSE result \in {Body(v) : v \in {value}} : TRUE

\* The first three decimals of a digit string, as thousandths
FractionMilli(ds) ==
  LET d(i) == IF i <= Len(ds) THEN DigitVal(ds[i]) ELSE 0
  IN  100 * d(1) + 10 * d(2) + d(3)

\* parseFloat(s), in thousandths: leading blanks, an optional sign, digits,
\* an optional fraction; NaN when no digit is read.  (Exponents and
\* "Infinity" are outside the modelled alphabet.)
ParseFloat(s) ==
  Const(SkipSpaces(s), LAMBDA t0 :
  Const(IF t0 # <<>> /\ Head(t0) \in {"-", "+"} THEN Tail(t0) ELSE t0, LAMBDA t1 :
  Const(LeadingDigits(t1), LAMBDA ip :
  Const(SubSeq(t1, Len(ip) + 1, Len(t1)), LAMBDA rest :
  Const(IF rest # <<>> /\ Head(rest) = "." THEN LeadingDigits(Tail(rest)) ELSE <<>>,
        LAMBDA fp :
    IF ip = <<>> /\ fp = <<>> THEN NaNV
    ELSE NumV((IF Head(t0) = "-" THEN -1 ELSE 1)
              * (1000 * DigitsValue(ip) + FractionMilli(fp))))))))

\* parseInt(s) for a string of digits only (the result of KeepDigits)
ParseIntDigits(ds) == IF ds = <<>> THEN NaNV ELSE NumV(DigitsValue(ds))

\* x || 0 for a number that may be NaN
OrZero(x) == IF IsNaN(x) THEN 0 ELSE x.n

Min(a, b) == IF a <= b THEN a ELSE b
Max(a, b) == IF a >= b THEN a ELSE b
Clamp(lo, hi, v) == Max(lo, Min(hi, v))

RECURSIVE Gcd(_, _)
Gcd(a, b) == IF b = 0 THEN a ELSE Gcd(b, a % b)

\* floor(k * a / b) for 0 <= a, 0 < b: the ratio is reduced first so that
\* the product stays within TLC's integers
ScaledRatio(k, a, b) ==
  LET g == Gcd(a, b)
  IN  (k * (a \div g)) \div (b \div g)

\* Math.round of a non-negative quotient n/d (round half up)
RoundDiv(n, d) == (2 * n + d) \div (2 * d)

\* The sequence s in stable descending order of keys (Array.prototype.sort
\* with the comparator (a, b) => key(b) - key(a)); keys[i] is the key of s[i]
SortedDesc(s, keys) ==
  LET n == Len(s)
      rank(j) == 1 + Cardinality({k \in 1..n : keys[k] > keys[j]})
                   + Cardinality({k \in 1..(j - 1) : keys[k] = keys[j]})
  IN  [i \in 1..n |-> s[CHOOSE j \in 1..n : rank(j) = i]]

\* the arguments are bound to their values before the sort reads them
SortDescBy(s, keys) ==
  CHOOSE sorted \in {SortedDesc(sv, kv) : sv \in {s}, kv \in {keys}} : TRUE

(***************************************************************************)
(* The magnitude parser, one copy per agent.  The result is in whole       *)
(* units; a plain number keeps its integer part.                           *)
(***************************************************************************)
\* value.replace(...) on a value that is not a string is a TypeError
ParseMagnitudeThrows(value) == Truthy(value) /\ ~IsString(value)

\* the suffix table is an ordered sequence of <<suffix, multiplier / 1000>>
RECURSIVE ApplySuffix(_, _, _)
ApplySuffix(milli, lower, table) ==
  IF table = <<>> THEN milli \div 1000
  ELSE IF Includes(lower, table[1][1]) THEN milli * table[1][2]
  ELSE ApplySuffix(milli, lower, Tail(table))

ParseMagnitude(value, table) ==
  IF ~Truthy(value) THEN 0
  ELSE LET number == OrZero(ParseFloat(KeepDigitsAndDots(value.s)))
       IN  ApplySuffix(number, ToLowerCase(value.s), table)

SuffixCrLK == << <<(<<"c", "r">>), 10000>>, <<(<<"l">>), 100>>, <<(<<"k">>), 1>> >>
SuffixCrLMK ==
  << <<(<<"c", "r">>), 10000>>, <<(<<"l">>), 100>>, <<(<<"m">>), 1000>>, <<(<<"k">>), 1>> >>

\* x?.replace(/[^\d]/g, '') then parseInt(...) || 0
OptionalReplaceThrows(v) == ~IsNullish(v) /\ ~IsString(v)
ParseCount(v) == IF IsNullish(v) THEN 0 ELSE OrZero(ParseIntDigits(KeepDigits(v.s)))

\* parsePercentage / parseGrowthRate: a fraction in 1/100000, or NaN
ParseRateThrows(v) == Truthy(v) /\ ~IsString(v)
ParseRate(v) ==
  IF ~Truthy(v) THEN NumV(0) ELSE ParseFloat(ReplaceFirst(v.s, "%"))

\* v?.toLowerCase().includes(sub) : undefined (falsy) for a nullish v
LowerIncludes(v, sub) == IsString(v) /\ Includes(ToLowerCase(v.s), sub)

(***************************************************************************)
(* The generative-text service, as each call site sees it: the call        *)
(* throws, the text holds no {...}, JSON.parse throws, or an object.       *)
(***************************************************************************)
LlmError == [kind |-> "error"]
LlmNoJson == [kind |-> "noJson"]
LlmBadJson == [kind |-> "badJson"]
LlmJson(obj) == [kind |-> "json", obj |-> obj]

\* placeholder for a payload that neither orchestrator nor synthesizer reads
Opaque == [t |-> "opaque"]

\* obj.key === val, for a key whose values are plain strings
FieldIs(obj, key, val) == key \in DOMAIN obj /\ obj[key] = val

\* the object {} (no own keys)
EmptyObject == <<>>

(***************************************************************************)
(* RiskAssessmentAgent                                                     *)
(***************************************************************************)
Risk_parseNumeric(value) == ParseMagnitude(value, SuffixCrLK)
Risk_parseGrowthRate(growth) == ParseRate(growth)

\* extractRiskFactors: the parsed object, or the fixed default
Risk_defaultRiskFactors ==
  [financialStress |-> "medium", marketRisk |-> "medium", teamRisk |-> "medium",
   competitiveThreats |-> "medium"]
Risk_extractRiskFactors(llm) ==
  IF llm.kind = "json" THEN llm.obj ELSE Risk_defaultRiskFactors

\* A TypeError somewhere in the try block of analyze: a method of String
\* called on a field that is not a string
Risk_throws(d) ==
  \/ ParseMagnitudeThrows(Get(d, "revenue"))
  \/ ParseRateThrows(Get(d, "growthRate"))
  \/ OptionalReplaceThrows(Get(d, "teamSize"))
  \/ OptionalReplaceThrows(Get(d, "runway"))
  \/ ParseMagnitudeThrows(Get(d, "burnRate"))
  \/ ParseMagnitudeThrows(Get(d, "customers"))
  \/ OptionalReplaceThrows(Get(d, "companyName"))
  \/ OptionalReplaceThrows(Get(d, "marketSize"))
  \/ OptionalReplaceThrows(Get(d, "industry"))

Risk_calculateUnitEconomicsScore(d) ==
  Const([revenue |-> Risk_parseNumeric(Get(d, "revenue")),
         customers |-> Risk_parseNumeric(Get(d, "customers"))], LAMBDA v :
    IF v.revenue > 0 /\ v.customers > 0
    THEN (IF v.revenue > 100 * v.customers THEN 480000 ELSE 240000)
    ELSE 300000)

\* features on the 0..1 scale, in units of 1/600000; NaN where the code
\* computes NaN
Risk_engineerFeatures(d) ==
  Const([revenue |-> Risk_parseNumeric(Get(d, "revenue")),
         growth |-> Risk_parseGrowthRate(Get(d, "growthRate")),
         teamSize |-> ParseCount(Get(d, "teamSize")),
         runway |-> ParseCount(Get(d, "runway")),
         burn |-> Risk_parseNumeric(Get(d, "burnRate"))], LAMBDA v :
    [revenue_growth_rate |->
       IF IsNaN(v.growth) THEN NaNV ELSE NumV(Min(600000, 12 * v.growth.n)),
     burn_efficiency |->
       NumV(IF v.revenue > 0 /\ v.burn > 0
            THEN (IF v.revenue >= v.burn THEN 600000
                  ELSE ScaledRatio(600000, v.revenue, v.burn))
            ELSE 300000),
     team_experience |-> NumV(Min(600000, 30000 * v.teamSize)),
     market_timing |-> NumV(420000),
     unit_economics |-> NumV(Risk_calculateUnitEconomicsScore(d)),
     runway_months |-> NumV(Min(600000, 25000 * v.runway)),
     customer_traction |-> NumV(IF v.revenue > 100000 THEN 480000 ELSE 240000)])

\* initializeMLModel().weights, in hundredths
Risk_weights ==
  [revenue_growth_rate |-> 25, burn_efficiency |-> 20, team_experience |-> 15,
   market_timing |-> 15, unit_economics |-> 10, runway_months |-> 10,
   customer_traction |-> 5]

\* Object.keys(weights).forEach: the sum of feature * weight
Risk_weightedSum(features) ==
    Risk_weights.revenue_growth_rate * features.revenue_growth_rate.n
  + Risk_weights.burn_efficiency * features.burn_efficiency.n
  + Risk_weights.team_experience * features.team_experience.n
  + Risk_weights.market_timing * features.market_timing.n
  + Risk_weights.unit_economics * features.unit_economics.n
  + Risk_weights.runway_months * features.runway_months.n
  + Risk_weights.customer_traction * features.customer_traction.n

\* adjustForRiskFactors, in units of 1/60000000
Risk_adjustForRiskFactors(probability, riskFactors) ==
  LET a1 == IF FieldIs(riskFactors, "financialStress", "high") THEN 9000000 ELSE 0
      a2 == IF FieldIs(riskFactors, "marketRisk", "high") THEN 6000000 ELSE 0
      a3 == IF FieldIs(riskFactors, "teamRisk", "high") THEN 6000000 ELSE 0
  IN  IF IsNaN(probability) THEN NaNV
      ELSE NumV(Clamp(6000000, 54000000, probability.n - a1 - a2 - a3))

\* predictSuccessProbability: probability is a whole percentage, or NaN
Risk_predictSuccessProbability(d, riskFactors) ==
  Const(Risk_engineerFeatures(d), LAMBDA features :
  Const(IF \E f \in DOMAIN features : IsNaN(features[f]) THEN NaNV
        ELSE NumV(Clamp(6000000, 54000000, Risk_weightedSum(features))),
        LAMBDA successProbability :
    [probability |->
       IF IsNaN(successProbability) THEN NaNV
       ELSE NumV(RoundDiv(successProbability.n, 600000)),
     confidence |->
       NumV(RoundDiv(100 * Cardinality({f \in DOMAIN features :
                                          ~IsNaN(features[f]) /\ features[f].n > 0}),
                     Cardinality(DOMAIN features))),
     riskAdjustedProbability |->
       Risk_adjustForRiskFactors(successProbability, riskFactors)]))

Risk_detectRedFlags(d) ==
  Const([runway |-> ParseCount(Get(d, "runway")),
         revenue |-> Risk_parseNumeric(Get(d, "revenue")),
         burn |-> Risk_parseNumeric(Get(d, "burnRate")),
         growth |-> Risk_parseGrowthRate(Get(d, "growthRate")),
         teamSize |-> ParseCount(Get(d, "teamSize")),
         marketSize |-> Get(d, "marketSize")], LAMBDA v :
       (IF v.runway < 6
        THEN << [type |-> "Financial", severity |-> "Critical",
                 flag |-> "Runway under 6 months"] >> ELSE <<>>)
    \o (IF v.burn > v.revenue * 5 /\ v.revenue > 0
        THEN << [type |-> "Financial", severity |-> "High",
                 flag |-> "Extremely high burn-to-revenue ratio"] >> ELSE <<>>)
    \o (IF ~IsNaN(v.growth) /\ v.growth.n > 50000
        THEN << [type |-> "Growth", severity |-> "Medium",
                 flag |-> "Potentially unsustainable growth rate"] >> ELSE <<>>)
    \o (IF v.teamSize < 3
        THEN << [type |-> "Team", severity |-> "Medium",
                 flag |-> "Very small team"] >> ELSE <<>>)
    \o (IF IsString(v.marketSize)
           /\ (Includes(v.marketSize.s, <<"T">>)
               \/ Includes(v.marketSize.s, <<"t", "r", "i", "l", "l", "i", "o", "n">>))
        THEN << [type |-> "Market", severity |-> "Low",
                 flag |-> "Potentially inflated market size"] >> ELSE <<>>))

CountSeverity(redFlags, sev) ==
  Cardinality({i \in 1..Len(redFlags) : redFlags[i].severity = sev})

\* each insight is {type, insight, implication, impact}; the texts are kept
\* as the template that produces them
Risk_generateRiskInsights(successPrediction, redFlags) ==
  Const(   << [type |-> "prediction", insight |-> "success probability based on ML analysis",
               impact |-> NumV(IF ~IsNaN(successPrediction.probability)
                                  /\ successPrediction.probability.n > 70
                               THEN 8 ELSE 6)] >>
        \o (IF Len(redFlags) > 0
            THEN << [type |-> "warning", insight |-> "risk factors identified",
                     impact |-> NumV(IF CountSeverity(redFlags, "Critical") > 0
                                     THEN 9 ELSE 5)] >>
            ELSE <<>>)
        \o << [type |-> "risk-profile", insight |-> "Primary risks",
               impact |-> NumV(6)] >>, LAMBDA insights :
    SortDescBy(insights, [i \in 1..Len(insights) |-> insights[i].impact.n]))

\* calculateFinalRiskScore, in tenths, or NaN
Risk_calculateFinalRiskScore(successPrediction, redFlags) ==
  IF IsNaN(successPrediction.probability) THEN NaNV
  ELSE NumV(Clamp(10, 100, (100 - successPrediction.probability.n)
                             + 15 * CountSeverity(redFlags, "Critical")
                             + 10 * CountSeverity(redFlags, "High")))

Risk_calculateConfidence == NumV(85)

Risk_getFallbackAnalysis(now) ==
  [agentName |-> "Risk Assessment Agent",
   timestamp |-> now,
   confidence |-> NumV(60),
   successPrediction |-> [probability |-> NumV(65), confidence |-> NumV(60)],
   riskBreakdown |-> Opaque,
   overallRiskScore |-> NumV(50),
   redFlags |-> <<>>,
   insights |-> << [type |-> "fallback",
                    insight |-> "Risk analysis completed with limited data",
                    impact |-> NumV(5)] >>,
   riskScore |-> NumV(50)]

Risk_result(d, llm, now) ==
  Const([successPrediction |->
           Risk_predictSuccessProbability(d, Risk_extractRiskFactors(llm)),
         redFlags |-> Risk_detectRedFlags(d)], LAMBDA v :
    [agentName |-> "Risk Assessment Agent",
     timestamp |-> now,
     confidence |-> Risk_calculateConfidence,
     successPrediction |-> v.successPrediction,
     riskBreakdown |-> Opaque,
     overallRiskScore |-> Opaque,
     redFlags |-> v.redFlags,
     mitigationStrategies |-> Opaque,
     insights |-> Risk_generateRiskInsights(v.successPrediction, v.redFlags),
     riskScore |-> Risk_calculateFinalRiskScore(v.successPrediction, v.redFlags)])

\* analyze: the try block's result, or the catch block's fallback
\* what a call gives its caller when nothing catches the error
Thrown == [t |-> "thrown"]

\* analyze without its try/catch: the TypeError reaches the caller
Risk_analyzeUncaught(d, llm, now) ==
  IF Risk_throws(d) THEN Thrown ELSE Risk_result(d, llm, now)

Risk_analyze(d, llm, now) ==
  IF Risk_throws(d) THEN Risk_getFallbackAnalysis(now) ELSE Risk_result(d, llm, now)

(***************************************************************************)
(* MarketResearchAgent                                                     *)
(***************************************************************************)
Market_parseFinancialValue(valueString) == ParseMagnitude(valueString, SuffixCrLK)
Market_parsePercentage(percentString) == ParseRate(percentString)

\* classifyIndustry: the parsed object, or the fallback classification
Market_defaultIndustry ==
  [primaryIndustry |-> Str(<<"T", "e", "c", "h", "n", "o", "l", "o", "g", "y">>),
   secondaryIndustry |-> Str(<<"S", "a", "a", "S">>),
   stage |-> "seed", businessModel |-> "B2B", confidence |-> "medium"]
\* classifyIndustry with nothing in place of the fallback classification
Market_classifyIndustryNoDefault(llm) ==
  IF llm.kind = "json" THEN llm.obj ELSE EmptyObject

Market_classifyIndustry(llm) ==
  IF llm.kind = "json" THEN llm.obj ELSE Market_defaultIndustry

Market_isFood(industry) ==
  Includes(industry, <<"f", "o", "o", "d">>) \/ Includes(industry, <<"f", "m", "c", "g">>)
Market_isData(industry) ==
  \/ Includes(industry, <<"d", "a", "t", "a">>)
  \/ Includes(industry, <<"a", "i">>)
  \/ Includes(industry, <<"a", "n", "a", "l", "y", "t", "i", "c", "s">>)

\* loadBenchmarkDatabase: revenue benchmark (avgMRR || avgARR), team size,
\* growth rate in 1/100000 (0: the table has none), number of peers
Market_benchmarks(industry) ==
  IF Market_isFood(industry)
  THEN [avgRevenue |-> 1400000, avgTeamSize |-> 12, avgGrowthRate |-> 20000, peers |-> 1]
  ELSE IF Market_isData(industry)
  THEN [avgRevenue |-> 400000, avgTeamSize |-> 10, avgGrowthRate |-> 30000, peers |-> 1]
  ELSE [avgRevenue |-> 100000, avgTeamSize |-> 8, avgGrowthRate |-> 0, peers |-> 0]

\* calculatePercentile(value, benchmark) for value and benchmark in one unit
Market_calculatePercentile(value, benchmark) ==
  IF IsNaN(value) \/ value.n = 0 \/ benchmark = 0 THEN 50
  ELSE IF value.n * 10 >= 20 * benchmark THEN 95
  ELSE IF value.n * 10 >= 15 * benchmark THEN 85
  ELSE IF value.n * 10 >= 12 * benchmark THEN 75
  ELSE IF value.n * 10 >= 10 * benchmark THEN 60
  ELSE IF value.n * 10 >= 8 * benchmark THEN 40
  ELSE IF value.n * 10 >= 6 * benchmark THEN 25
  ELSE 15

Market_calculateEfficiencyScore(metrics) ==
  Min(95, (IF metrics.runway > 12 THEN 80 ELSE IF metrics.runway > 6 THEN 60 ELSE 40)
          + (IF metrics.revenue > 100000 * Max(metrics.teamSize, 1) THEN 20 ELSE 0))

Market_determineMarketPosition(rankings) ==
  Const(rankings.revenue + rankings.teamSize + rankings.growthRate + rankings.efficiency,
        LAMBDA total :
    IF total >= 4 * 80 THEN "Leader"
    ELSE IF total >= 4 * 60 THEN "Strong Performer"
    ELSE IF total >= 4 * 40 THEN "Average"
    ELSE "Below Average")

Market_throws(d, industryData) ==
  \/ ~IsString(Get(industryData, "primaryIndustry"))
  \/ ParseMagnitudeThrows(OrElse(Get(d, "revenue"), Get(d, "arr")))
  \/ OptionalReplaceThrows(Get(d, "teamSize"))
  \/ ParseRateThrows(Get(d, "growthRate"))
  \/ ParseMagnitudeThrows(Get(d, "burnRate"))
  \/ OptionalReplaceThrows(Get(d, "runway"))
  \/ /\ Includes(ToLowerCase(Get(industryData, "primaryIndustry").s), <<"f", "o", "o", "d">>)
     /\ OptionalReplaceThrows(Get(d, "marketSize"))
  \/ OptionalReplaceThrows(Get(d, "companyName"))
  \/ OptionalReplaceThrows(Get(d, "industry"))

Market_performBenchmarking(d, industryData) ==
  Const([relevantBenchmarks |->
           Market_benchmarks(ToLowerCase(industryData.primaryIndustry.s)),
         companyMetrics |->
           [revenue |-> Market_parseFinancialValue(OrElse(Get(d, "revenue"), Get(d, "arr"))),
            teamSize |-> ParseCount(Get(d, "teamSize")),
            growthRate |-> Market_parsePercentage(Get(d, "growthRate")),
            burnRate |-> Market_parseFinancialValue(Get(d, "burnRate")),
            runway |-> ParseCount(Get(d, "runway"))]], LAMBDA v :
  Const([revenue |-> Market_calculatePercentile(NumV(v.companyMetrics.revenue),
                                                v.relevantBenchmarks.avgRevenue),
         teamSize |-> Market_calculatePercentile(NumV(v.companyMetrics.teamSize),
                                                 v.relevantBenchmarks.avgTeamSize),
         growthRate |-> Market_calculatePercentile(v.companyMetrics.growthRate,
                                                   v.relevantBenchmarks.avgGrowthRate),
         efficiency |-> Market_calculateEfficiencyScore(v.companyMetrics)],
        LAMBDA rankings :
    [relevantBenchmarks |-> v.relevantBenchmarks,
     companyMetrics |-> v.companyMetrics,
     rankings |-> rankings,
     peerComparisons |-> v.relevantBenchmarks.peers,
     industryPosition |-> Market_determineMarketPosition(rankings)]))

Market_validateMarketSize(d, industryData) ==
  Const([industry |-> ToLowerCase(industryData.primaryIndustry.s),
         claimedMarket |-> Get(d, "marketSize")], LAMBDA v :
    [claimedMarketSize |-> v.claimedMarket,
     credibility |->
       IF Includes(v.industry, <<"f", "o", "o", "d">>)
       THEN (IF IsString(v.claimedMarket) /\ Includes(v.claimedMarket.s, <<"5", "0", "B">>)
             THEN "Reasonable" ELSE "Conservative")
       ELSE IF Includes(v.industry, <<"d", "a", "t", "a">>) THEN "Credible"
       ELSE "Unknown"])

Market_analyzeCompetitivePosition(benchmarkAnalysis) ==
  [overallPosition |-> Market_determineMarketPosition(benchmarkAnalysis.rankings),
   marketShare |-> "< 0.1% (early stage)",
   threats |-> 4]

Market_generateMarketInsights(benchmarkAnalysis) ==
  Const(   (IF benchmarkAnalysis.rankings.revenue > 75
            THEN << [type |-> "market-position",
                     insight |-> "Top quartile revenue performance",
                     impact |-> NumV(9)] >> ELSE <<>>)
        \o (IF ~IsNaN(benchmarkAnalysis.companyMetrics.growthRate)
               /\ benchmarkAnalysis.companyMetrics.growthRate.n > 20000
            THEN << [type |-> "growth", insight |-> "growth rate vs industry average",
                     impact |-> NumV(8)] >> ELSE <<>>)
        \o (IF benchmarkAnalysis.rankings.efficiency > 60
            THEN << [type |-> "efficiency", insight |-> "Above-average capital efficiency",
                     impact |-> NumV(7)] >> ELSE <<>>)
        \o << [type |-> "opportunity", insight |-> "Operating in CAGR market",
               impact |-> NumV(6)] >>, LAMBDA insights :
    SortDescBy(insights, [i \in 1..Len(insights) |-> insights[i].impact.n]))

\* calculateMarketScore, in tenths: the weighted sum is in thousandths
Market_calculateMarketScore(benchmarkAnalysis, marketValidation, competitivePosition) ==
  NumV(RoundDiv(  25 * benchmarkAnalysis.rankings.revenue
                + 30 * benchmarkAnalysis.rankings.growthRate
                + 200 * (IF competitivePosition.overallPosition = "Leader" THEN 9
                         ELSE IF competitivePosition.overallPosition = "Strong" THEN 7
                         ELSE 5)
                + 250 * (IF marketValidation.credibility = "Credible" THEN 8 ELSE 6),
                100))

Market_calculateConfidence(industryData, benchmarkAnalysis) ==
  NumV(Min(95, 70 + (IF FieldIs(industryData, "confidence", "high") THEN 20 ELSE 0)
                  + (IF benchmarkAnalysis.peerComparisons > 0 THEN 10 ELSE 0)))

Market_getFallbackAnalysis(now) ==
  [agentName |-> "Market Research Agent",
   timestamp |-> now,
   confidence |-> NumV(50),
   industryData |-> Opaque,
   benchmarkAnalysis |-> Opaque,
   marketValidation |-> Opaque,
   competitivePosition |-> [overallPosition |-> "Average"],
   insights |-> <<>>,
   score |-> NumV(50)]

Market_result(d, llm, now) ==
  Const(Market_classifyIndustry(llm), LAMBDA industryData :
  Const([benchmarkAnalysis |-> Market_performBenchmarking(d, industryData),
         marketValidation |-> Market_validateMarketSize(d, industryData)], LAMBDA v :
  Const(Market_analyzeCompetitivePosition(v.benchmarkAnalysis),
        LAMBDA competitivePosition :
    [agentName |-> "Market Research Agent",
     timestamp |-> now,
     confidence |-> Market_calculateConfidence(industryData, v.benchmarkAnalysis),
     industryData |-> industryData,
     benchmarkAnalysis |-> v.benchmarkAnalysis,
     marketValidation |-> v.marketValidation,
     competitivePosition |-> competitivePosition,
     growthAnalysis |-> Opaque,
     insights |-> Market_generateMarketInsights(v.benchmarkAnalysis),
     score |-> Market_calculateMarketScore(v.benchmarkAnalysis, v.marketValidation,
                                           competitivePosition)])))

Market_analyze(d, llm, now) ==
  IF Market_throws(d, Market_classifyIndustry(llm))
  THEN Market_getFallbackAnalysis(now)
  ELSE Market_result(d, llm, now)

(***************************************************************************)
(* CompetitiveIntelligenceAgent                                            *)
(***************************************************************************)
Competitive_parseNumeric(value) == ParseMagnitude(value, SuffixCrLMK)
Competitive_parseGrowthRate(growth) == ParseRate(growth)

\* loadCompetitiveDatabase: the fields of each competitor that are read
Competitive_foodTech ==
  << [name |-> "Tata Soulfull", stage |-> "Growth", funding |-> Str(<<"₹", "2", "5", " ", "c", "r", "o", "r", "e">>)],
     [name |-> "Troo Good", stage |-> "Series A", funding |-> Str(<<"₹", "5", "5", " ", "c", "r", "o", "r", "e">>)],
     [name |-> "24 Mantra Organic", stage |-> "Established", funding |-> Str(<<"P", "r", "o", "m", "o", "t", "e", "r", "-", "f", "u", "n", "d", "e", "d">>)] >>
Competitive_aiDataAnalytics ==
  << [name |-> "Alteryx", stage |-> "Public", funding |-> Str(<<"$", "1", "6", "3", " ", "M", "i", "l", "l", "i", "o", "n">>)],
     [name |-> "Dataiku", stage |-> "Growth", funding |-> Str(<<"$", "1", ".", "0", "4", " ", "B", "i", "l", "l", "i", "o", "n">>)],
     [name |-> "Obviously.AI", stage |-> "Series A", funding |-> Str(<<"$", "1", "0", " ", "M", "i", "l", "l", "i", "o", "n">>)] >>

Competitive_defaultMapping ==
  [obj |-> [primaryCategory |-> Str(<<"T", "e", "c", "h", "n", "o", "l", "o", "g", "y">>),
            competitiveSet |-> 1],
   realCompetitors |-> <<>>]

Competitive_nameIncludes(d, sub) == LowerIncludes(Get(d, "companyName"), sub)

\* enrichIndustryMapping runs inside the try of mapIndustryCompetitors
Competitive_enrichThrows(mapping, d) ==
  \/ OptionalReplaceThrows(Get(d, "companyName"))
  \/ /\ ~IsString(Get(mapping, "primaryCategory"))
     /\ \/ ~Competitive_nameIncludes(d, <<"n", "a", "a", "r", "i", "o">>)
        \/ ~Competitive_nameIncludes(d, <<"s", "t", "r", "i", "d", "e">>)

Competitive_enrichIndustryMapping(mapping, d) ==
  Const(IF IsString(Get(mapping, "primaryCategory"))
        THEN ToLowerCase(mapping.primaryCategory.s) ELSE <<>>, LAMBDA category :
    [obj |-> mapping,
     realCompetitors |->
       IF \/ Competitive_nameIncludes(d, <<"s", "t", "r", "i", "d", "e">>)
          \/ Includes(category, <<"d", "a", "t", "a">>)
          \/ Includes(category, <<"a", "i">>)
       THEN Competitive_aiDataAnalytics
       ELSE IF \/ Competitive_nameIncludes(d, <<"n", "a", "a", "r", "i", "o">>)
               \/ Includes(category, <<"f", "o", "o", "d">>)
       THEN Competitive_foodTech
       ELSE <<>>])

Competitive_mapIndustryCompetitors(d, llm) ==
  IF llm.kind = "json" /\ ~Competitive_enrichThrows(llm.obj, d)
  THEN Competitive_enrichIndustryMapping(llm.obj, d)
  ELSE Competitive_defaultMapping

\* researchCompetitor: the parsed profile, or the fallback profile
Competitive_fallbackProfile ==
  [name |-> "competitor", stage |-> "unknown", funding |-> Str(<<"N", "o", "t", " ", "d", "i", "s", "c", "l", "o", "s", "e", "d">>),
   marketPosition |-> "challenger"]
Competitive_researchCompetitor(llm) ==
  IF llm.kind = "json" THEN llm.obj ELSE Competitive_fallbackProfile

Competitive_identifyDirectCompetitors(industryMapping, llmProfile) ==
  IF Len(industryMapping.realCompetitors) > 0
  THEN industryMapping.realCompetitors
  ELSE [i \in 1..Min(3, industryMapping.obj.competitiveSet) |->
          Competitive_researchCompetitor(llmProfile)]

Competitive_competitorThrows(comp) ==
  \/ ParseMagnitudeThrows(Get(comp, "funding"))
  \/ (Truthy(Get(comp, "keyProducts")) /\ ~IsString(Get(comp, "keyProducts")))

Competitive_throws(d, llm) ==
  Const(Competitive_mapIndustryCompetitors(d, llm.mapping), LAMBDA industryMapping :
    \/ IF Len(industryMapping.realCompetitors) > 0
       THEN \/ OptionalReplaceThrows(Get(d, "industry"))
            \/ ParseMagnitudeThrows(Get(d, "revenue"))
       ELSE \/ "competitiveSet" \notin DOMAIN industryMapping.obj
            \/ Const(Competitive_identifyDirectCompetitors(industryMapping, llm.profile),
                     LAMBDA competitors :
                 \E i \in 1..Len(competitors) :
                   Competitive_competitorThrows(competitors[i]))
    \/ ParseMagnitudeThrows(OrElse(Get(d, "fundingAmount"), Get(d, "valuation")))
    \/ OptionalReplaceThrows(Get(d, "fundingStage"))
    \/ OptionalReplaceThrows(Get(d, "companyName"))
    \/ ParseMagnitudeThrows(Get(d, "revenue"))
    \/ ParseRateThrows(Get(d, "growthRate"))
    \/ OptionalReplaceThrows(Get(d, "teamSize"))
    \/ ParseMagnitudeThrows(Get(d, "fundingAmount")))

RECURSIVE Competitive_fundings(_)
Competitive_fundings(competitors) ==
  IF competitors = <<>> THEN <<>>
  ELSE Const(Competitive_parseNumeric(Get(Head(competitors), "funding")), LAMBDA f :
         (IF f > 0 THEN <<f>> ELSE <<>>) \o Competitive_fundings(Tail(competitors)))

RECURSIVE SumSeq(_)
SumSeq(s) == IF s = <<>> THEN 0 ELSE Head(s) + SumSeq(Tail(s))

Competitive_calculateDifferentiationStrength(n) ==
  IF n >= 3 THEN "Strong" ELSE IF n >= 1 THEN "Medium" ELSE "Weak"

Competitive_analyzeDifferentiation(d) ==
  Const(  (IF Competitive_nameIncludes(d, <<"n", "a", "a", "r", "i", "o">>) THEN 3 ELSE 0)
        + (IF Competitive_nameIncludes(d, <<"s", "t", "r", "i", "d", "e">>) THEN 3 ELSE 0)
        + Const(Competitive_parseGrowthRate(Get(d, "growthRate")), LAMBDA growth :
            IF ~IsNaN(growth) /\ growth.n > 20000 THEN 1 ELSE 0)
        + (IF Competitive_parseNumeric(Get(d, "revenue")) > 1000000 THEN 1 ELSE 0),
        LAMBDA differentiators :
    [uniqueDifferentiators |-> differentiators,
     competitiveVulnerabilities |-> IF ParseCount(Get(d, "teamSize")) < 10 THEN 1 ELSE 0,
     differentiationStrength |->
       Competitive_calculateDifferentiationStrength(differentiators)])

Competitive_assessMarketPositioning(d) ==
  Const(Competitive_parseNumeric(Get(d, "revenue")), LAMBDA revenue :
    [currentPosition |-> IF revenue > 5000000 THEN "Established Player"
                         ELSE IF revenue > 1000000 THEN "Growth Stage Challenger"
                         ELSE IF revenue > 100000 THEN "Emerging Competitor"
                         ELSE "Early Stage Entrant"])

\* averageFunding > parseNumeric(fundingAmount), without the division
Competitive_analyzeThreatOpportunities(competitors, d) ==
  Const(Competitive_fundings(competitors), LAMBDA fundings :
    [immediateThreats |-> <<>>,
     mediumTermThreats |->
          (IF /\ Len(fundings) > 0
              /\ SumSeq(fundings)
                   > Len(fundings) * Competitive_parseNumeric(Get(d, "fundingAmount"))
           THEN << [type |-> "Funding", severity |-> "Medium"] >> ELSE <<>>)
       \o << [type |-> "Market", severity |-> "Medium"] >>])

Competitive_identifyCompetitiveAdvantage(d) ==
  Const(Competitive_parseGrowthRate(Get(d, "growthRate")), LAMBDA growth :
    [primaryAdvantages |->
       (IF ~IsNaN(growth) /\ growth.n > 25000 THEN << "Growth" >> ELSE <<>>)
         \o (IF Competitive_nameIncludes(d, <<"n", "a", "a", "r", "i", "o">>)
             THEN << "Business Model" >> ELSE <<>>)])

Competitive_generateCompetitiveInsights(differentiationAnalysis) ==
  Const(<< [type |-> "positioning", insight |-> "Positioned as differentiator",
            impact |-> NumV(IF differentiationAnalysis.differentiationStrength = "Strong"
                            THEN 8 ELSE 5)],
           [type |-> "competition", insight |-> "major competitive challenges identified",
            impact |-> NumV(6)],
           [type |-> "opportunity", insight |-> "Emerging market gaps",
            impact |-> NumV(7)] >>, LAMBDA insights :
    SortDescBy(insights, [i \in 1..Len(insights) |-> insights[i].impact.n]))

\* calculateCompetitiveScore, in tenths
Competitive_calculateCompetitiveScore(differentiationAnalysis, positioningAnalysis) ==
  NumV(Clamp(10, 100,
         50 + (IF differentiationAnalysis.differentiationStrength = "Strong" THEN 20
               ELSE IF differentiationAnalysis.differentiationStrength = "Medium" THEN 10
               ELSE 0)
            + (IF positioningAnalysis.currentPosition = "Growth Stage Challenger"
               THEN 10 ELSE 0)
            + Min(20, differentiationAnalysis.uniqueDifferentiators * 5)))

Competitive_calculateConfidence == NumV(80)

Competitive_getFallbackAnalysis(now) ==
  [agentName |-> "Competitive Intelligence Agent",
   timestamp |-> now,
   confidence |-> NumV(60),
   directCompetitors |-> <<>>,
   competitiveAdvantage |-> [primaryAdvantages |-> <<>>],
   insights |-> << [type |-> "fallback",
                    insight |-> "Competitive analysis completed with limited data",
                    impact |-> NumV(5)] >>,
   score |-> NumV(50)]

Competitive_result(d, llm, now) ==
  Const(Competitive_mapIndustryCompetitors(d, llm.mapping), LAMBDA industryMapping :
  Const([directCompetitors |->
           Competitive_identifyDirectCompetitors(industryMapping, llm.profile),
         differentiationAnalysis |-> Competitive_analyzeDifferentiation(d),
         positioningAnalysis |-> Competitive_assessMarketPositioning(d)], LAMBDA v :
    [agentName |-> "Competitive Intelligence Agent",
     timestamp |-> now,
     confidence |-> Competitive_calculateConfidence,
     industryMapping |-> industryMapping,
     directCompetitors |-> v.directCompetitors,
     competitorIntelligence |-> Opaque,
     fundingLandscape |-> Opaque,
     differentiationAnalysis |-> v.differentiationAnalysis,
     positioningAnalysis |-> v.positioningAnalysis,
     threatOpportunityAnalysis |->
       Competitive_analyzeThreatOpportunities(v.directCompetitors, d),
     competitiveAdvantage |-> Competitive_identifyCompetitiveAdvantage(d),
     insights |-> Competitive_generateCompetitiveInsights(v.differentiationAnalysis),
     score |-> Competitive_calculateCompetitiveScore(v.differentiationAnalysis,
                                                     v.positioningAnalysis),
     recommendations |-> Opaque]))

Competitive_analyze(d, llm, now) ==
  IF Competitive_throws(d, llm)
  THEN Competitive_getFallbackAnalysis(now)
  ELSE Competitive_result(d, llm, now)

(***************************************************************************)
(* PortfolioImpactAgent                                                    *)
(***************************************************************************)
Portfolio_parseNumeric(value) == ParseMagnitude(value, SuffixCrLK)

\* exitData: averageExitMultiple in tenths, successRate in hundredths
Portfolio_exitData(industry) ==
  IF industry = "foodTech"
  THEN [averageExitMultiple |-> 42, successRate |-> 35, acquisition |-> 70]
  ELSE [averageExitMultiple |-> 68, successRate |-> 42, acquisition |-> 60]

Portfolio_totalFundSize == 1000000000

Portfolio_classifyIndustry(d) ==
  IF \/ LowerIncludes(Get(d, "companyName"), <<"n", "a", "a", "r", "i", "o">>)
     \/ LowerIncludes(Get(d, "industry"), <<"f", "o", "o", "d">>)
  THEN "foodTech" ELSE "aiSaas"

Portfolio_classifyIndustryThrows(d) ==
  OptionalReplaceThrows(Get(d, "companyName")) \/ OptionalReplaceThrows(Get(d, "industry"))

Portfolio_getDefaultInvestmentParameters ==
  [currentValuation |-> 50000000, investmentAmount |-> 20000000,
   expectedHoldingPeriod |-> 5, enriched |-> FALSE]

\* enrichInvestmentParameters runs inside the try of extractInvestmentParameters
Portfolio_enrichThrows(d) ==
  \/ ParseMagnitudeThrows(OrElse(Get(d, "valuation"), Get(d, "fundingAmount")))
  \/ ParseMagnitudeThrows(Get(d, "fundingAmount"))
  \/ OptionalReplaceThrows(Get(d, "fundingStage"))
  \/ Portfolio_classifyIndustryThrows(d)

Portfolio_estimateHoldingPeriod(d) ==
  IF LowerIncludes(Get(d, "fundingStage"), <<"s", "e", "e", "d">>) THEN 7
  ELSE IF LowerIncludes(Get(d, "fundingStage"), <<"s", "e", "r", "i", "e", "s", "-", "a">>) THEN 5
  ELSE 4

Portfolio_enrichInvestmentParameters(d) ==
  Const([valuation |->
           Portfolio_parseNumeric(OrElse(Get(d, "valuation"), Get(d, "fundingAmount"))),
         investmentAmount |-> Portfolio_parseNumeric(Get(d, "fundingAmount"))], LAMBDA v :
    [currentValuation |-> IF v.valuation # 0 THEN v.valuation ELSE 50000000,
     investmentAmount |-> IF v.investmentAmount # 0 THEN v.investmentAmount ELSE 20000000,
     expectedHoldingPeriod |-> Portfolio_estimateHoldingPeriod(d),
     enriched |-> TRUE])

Portfolio_extractInvestmentParameters(d, llm) ==
  IF llm.kind = "json" /\ ~Portfolio_enrichThrows(d)
  THEN Portfolio_enrichInvestmentParameters(d)
  ELSE Portfolio_getDefaultInvestmentParameters

Portfolio_throws(d) ==
  \/ Portfolio_classifyIndustryThrows(d)
  \/ ParseMagnitudeThrows(Get(d, "fundingAmount"))
  \/ ParseMagnitudeThrows(Get(d, "revenue"))
  \/ OptionalReplaceThrows(Get(d, "fundingStage"))

\* expectedValue > threshold, for expectedValue =
\* investmentAmount * averageExitMultiple * successRate, without the product
Portfolio_expectedValueExceeds(investmentParameters, exitData, threshold) ==
  Const(exitData.averageExitMultiple * exitData.successRate, LAMBDA k :
    investmentParameters.investmentAmount
      > (threshold \div k) * 1000 + ((threshold % k) * 1000) \div k)

\* performScenarioAnalysis: revenueMultiplier * exitMultiplier, in hundredths
Portfolio_scenarioMultipliers == <<288, 48, 24, 182>>
Portfolio_bestCaseExitMultiplier == 16

\* sharpeRatio > k / 2 for the four adjusted returns: the investment amount
\* cancels, and mean / deviation > k / 2 is 4 * S^2 > k^2 * (4 * Q - S^2)
Portfolio_sharpeExceedsHalves(k) ==
  Const([S |-> SumSeq(Portfolio_scenarioMultipliers),
         Q |-> SumSeq([i \in 1..Len(Portfolio_scenarioMultipliers) |->
                        Portfolio_scenarioMultipliers[i] * Portfolio_scenarioMultipliers[i]])],
        LAMBDA v :
    4 * v.S * v.S > k * k * (Len(Portfolio_scenarioMultipliers) * v.Q - v.S * v.S))

Portfolio_simulatePortfolioImpact(d) ==
  Const(Const(Portfolio_parseNumeric(Get(d, "fundingAmount")), LAMBDA parsed :
          IF parsed # 0 THEN parsed ELSE 20000000), LAMBDA investmentAmount :
    [investmentAmount |-> investmentAmount,
     overFivePercent |-> investmentAmount > Portfolio_totalFundSize \div 20,
     diversificationBenefit |->
       IF Portfolio_classifyIndustry(d) = "foodTech"
       THEN "Medium diversification benefit" ELSE "Standard diversification"])

Portfolio_generatePortfolioInsights(portfolioImpact) ==
  Const(<< [type |-> "portfolio-impact", insight |-> "Investment represents % of fund",
            impact |-> NumV(IF portfolioImpact.overFivePercent THEN 8 ELSE 6)],
           [type |-> "return-potential", insight |-> "Upside scenario projects return multiple",
            impact |-> NumV(IF Portfolio_bestCaseExitMultiplier > 50 THEN 9 ELSE 7)],
           [type |-> "exit-strategy", insight |-> "probability of acquisition exit",
            impact |-> NumV(7)],
           [type |-> "diversification", insight |-> "Portfolio diversification benefit",
            impact |-> NumV(6)] >>, LAMBDA insights :
    SortDescBy(insights, [i \in 1..Len(insights) |-> insights[i].impact.n]))

\* calculatePortfolioScore, in tenths
Portfolio_calculatePortfolioScore(investmentParameters, exitData) ==
  LET return == IF Portfolio_expectedValueExceeds(investmentParameters, exitData, 50000000)
                THEN 30
                ELSE IF Portfolio_expectedValueExceeds(investmentParameters, exitData, 30000000)
                THEN 20
                ELSE IF Portfolio_expectedValueExceeds(investmentParameters, exitData, 10000000)
                THEN 10
                ELSE 0
      risk == IF Portfolio_sharpeExceedsHalves(3) THEN 20
              ELSE IF Portfolio_sharpeExceedsHalves(2) THEN 10
              ELSE 0
  IN  NumV(Clamp(10, 100, 50 + return + risk))

Portfolio_generateInvestmentRecommendation ==
  IF Portfolio_sharpeExceedsHalves(3) THEN [recommendation |-> "STRONG BUY", confidence |-> "High"]
  ELSE IF Portfolio_sharpeExceedsHalves(2) THEN [recommendation |-> "BUY", confidence |-> "Medium"]
  ELSE IF Portfolio_sharpeExceedsHalves(1)
  THEN [recommendation |-> "HOLD/CONSIDER", confidence |-> "Medium"]
  ELSE [recommendation |-> "PASS", confidence |-> "High"]

Portfolio_calculateConfidence == NumV(85)

Portfolio_getFallbackAnalysis(now) ==
  [agentName |-> "Portfolio Impact Agent",
   timestamp |-> now,
   confidence |-> NumV(60),
   investmentRecommendation |-> [recommendation |-> "HOLD/CONSIDER", confidence |-> "Medium"],
   portfolioImpact |-> Opaque,
   returnProjections |-> Opaque,
   insights |-> << [type |-> "fallback",
                    insight |-> "Portfolio analysis completed with limited data",
                    impact |-> NumV(5)] >>,
   score |-> NumV(50)]

Portfolio_result(d, llm, now) ==
  Const([investmentParameters |-> Portfolio_extractInvestmentParameters(d, llm),
         portfolioImpact |-> Portfolio_simulatePortfolioImpact(d)], LAMBDA v :
    [agentName |-> "Portfolio Impact Agent",
     timestamp |-> now,
     confidence |-> Portfolio_calculateConfidence,
     investmentParameters |-> v.investmentParameters,
     returnProjections |-> Opaque,
     portfolioImpact |-> v.portfolioImpact,
     scenarioAnalysis |-> Opaque,
     exitModeling |-> Opaque,
     allocationOptimization |-> Opaque,
     riskReturnAnalysis |-> Opaque,
     investmentRecommendation |-> Portfolio_generateInvestmentRecommendation,
     insights |-> Portfolio_generatePortfolioInsights(v.portfolioImpact),
     score |-> Portfolio_calculatePortfolioScore(
                 v.investmentParameters,
                 Portfolio_exitData(Portfolio_classifyIndustry(d)))])

Portfolio_analyze(d, llm, now) ==
  IF Portfolio_throws(d)
  THEN Portfolio_getFallbackAnalysis(now)
  ELSE Portfolio_result(d, llm, now)

(***************************************************************************)
(* DocumentAgent                                                           *)
(***************************************************************************)
\* parseNumericValue: b, m, k suffixes; the value is in thousands
Document_parseNumericValue(valueString) ==
  ParseMagnitude(valueString, << <<(<<"b">>), 1000>>, <<(<<"m">>), 1>> >>)

Document_getDefaultStructuredData ==
  [companyName |-> Str(<<"S", "a", "m", "p", "l", "e", " ", "C", "o", "m", "p", "a", "n", "y">>), industry |-> Str(<<"T", "e", "c", "h", "n", "o", "l", "o", "g", "y">>),
   revenue |-> Str(<<"$", "1", "0", "0", "K", " ", "M", "R", "R">>), customers |-> Str(<<"1", "0", ",", "0", "0", "0">>), teamSize |-> Str(<<"1", "2">>),
   fundingStage |-> Str(<<"S", "e", "r", "i", "e", "s", " ", "A">>), fundingAmount |-> Str(<<"$", "2", "M">>),
   marketSize |-> Str(<<"$", "5", "0", "B">>), growthRate |-> Str(<<"2", "5", "%">>),
   burnRate |-> Str(<<"$", "8", "0", "K">>), runway |-> Str(<<"1", "8", " ", "m", "o", "n", "t", "h", "s">>),
   valuation |-> Str(<<"N", "o", "t", " ", "s", "p", "e", "c", "i", "f", "i", "e", "d">>)]

\* extractStructuredData with nothing in place of the default template
Document_extractStructuredDataNoDefault(llm) ==
  IF llm.kind = "json" THEN llm.obj ELSE EmptyObject

\* extractStructuredData: the parsed object, or the default data
Document_extractStructuredData(llm) ==
  IF llm.kind = "json" THEN llm.obj ELSE Document_getDefaultStructuredData

Document_calculateConfidence(extractedData) ==
  NumV(Min(100, 20 * Cardinality(
    {f \in {"companyName", "revenue", "customers", "teamSize", "fundingStage"} :
       /\ Truthy(Get(extractedData, f))
       /\ Get(extractedData, f)
            # Str(<<"N", "o", "t", " ", "s", "p", "e", "c", "i", "f", "i", "e", "d">>)})))

Document_insightsThrow(extractedData) ==
  Const([revenue |-> Get(extractedData, "revenue"),
         customers |-> Get(extractedData, "customers"),
         growthRate |-> Get(extractedData, "growthRate"),
         teamSize |-> Get(extractedData, "teamSize")], LAMBDA v :
    \/ /\ Truthy(v.revenue) /\ Truthy(v.customers)
       /\ (~IsString(v.revenue) \/ ~IsString(v.customers))
    \/ Truthy(v.growthRate) /\ ~IsString(v.growthRate)
    \/ /\ Truthy(v.teamSize) /\ Truthy(v.revenue)
       /\ (~IsString(v.teamSize) \/ ~IsString(v.revenue)))

Document_generateDocumentInsights(extractedData) ==
  Const([revenue |-> IF /\ Truthy(Get(extractedData, "revenue"))
                        /\ Truthy(Get(extractedData, "customers"))
                     THEN Document_parseNumericValue(extractedData.revenue) ELSE 0,
         customers |-> IF /\ Truthy(Get(extractedData, "revenue"))
                          /\ Truthy(Get(extractedData, "customers"))
                       THEN Document_parseNumericValue(extractedData.customers) ELSE 0,
         teamSize |-> IF /\ Truthy(Get(extractedData, "teamSize"))
                         /\ Truthy(Get(extractedData, "revenue"))
                      THEN Document_parseNumericValue(extractedData.teamSize) ELSE 0,
         teamRevenue |-> IF /\ Truthy(Get(extractedData, "teamSize"))
                            /\ Truthy(Get(extractedData, "revenue"))
                         THEN Document_parseNumericValue(extractedData.revenue) ELSE 0,
         growth |-> IF Truthy(Get(extractedData, "growthRate"))
                    THEN ParseFloat(ReplaceFirst(extractedData.growthRate.s, "%"))
                    ELSE NumV(0)], LAMBDA v :
  Const(   (IF v.revenue # 0 /\ v.customers # 0
            THEN << [type |-> "financial", insight |-> "ARPU",
                     impact |-> NumV(IF v.revenue > 100 * v.customers THEN 8 ELSE 4)] >>
            ELSE <<>>)
        \o (IF Truthy(v.growth)
            THEN << [type |-> "growth", insight |-> "growth rate",
                     impact |-> NumV(IF v.growth.n > 20000 THEN 9 ELSE 6)] >>
            ELSE <<>>)
        \o (IF v.teamSize # 0 /\ v.teamRevenue # 0
            THEN << [type |-> "efficiency", insight |-> "revenue per employee",
                     impact |-> NumV(IF v.teamRevenue > 100 * v.teamSize THEN 7 ELSE 5)] >>
            ELSE <<>>), LAMBDA insights :
    SortDescBy(insights, [i \in 1..Len(insights) |-> insights[i].impact.n])))

Document_getFallbackAnalysis(now) ==
  [agentName |-> "Document Intelligence Agent",
   timestamp |-> now,
   confidence |-> NumV(50),
   extractedData |-> Document_getDefaultStructuredData,
   financialMetrics |-> Opaque,
   teamAnalysis |-> Opaque,
   businessModelAnalysis |-> Opaque,
   insights |-> << [type |-> "fallback", insight |-> "Analysis completed with limited data",
                    impact |-> NumV(5)] >>]

\* analyze: documentInput is "text", "file" or "invalid"
Document_analyze(documentInput, llm, now) ==
  Const(Document_extractStructuredData(llm), LAMBDA extractedData :
    IF documentInput = "invalid" \/ Document_insightsThrow(extractedData)
    THEN Document_getFallbackAnalysis(now)
    ELSE [agentName |-> "Document Intelligence Agent",
          timestamp |-> now,
          confidence |-> Document_calculateConfidence(extractedData),
          extractedData |-> extractedData,
          financialMetrics |-> Opaque,
          teamAnalysis |-> Opaque,
          businessModelAnalysis |-> Opaque,
          insights |-> Document_generateDocumentInsights(extractedData)])

(***************************************************************************)
(* MultiAgentOrchestrator: fallbacks and synthesis                         *)
(***************************************************************************)
\* obj.key || default, for a field whose present values are truthy
FieldOr(obj, key, default) == IF key \in DOMAIN obj THEN obj[key] ELSE default

getMarketFallback(documentData) ==
  [marketPosition |-> "Analysis pending",
   marketSize |-> OrElse(Get(documentData, "marketSize"), Str(<<"N", "o", "t", " ", "s", "p", "e", "c", "i", "f", "i", "e", "d">>)),
   score |-> NumV(50),
   insights |-> <<>>]

\* a fallback that hands back nothing
getRiskFallbackMissing(documentData) == Undefined

getRiskFallback(documentData) ==
  [riskScore |-> NumV(50), overallRisk |-> "Medium", risks |-> <<>>, insights |-> <<>>]

getCompetitiveFallback(documentData) ==
  [competitiveAdvantage |-> "Analysis pending", score |-> NumV(50),
   insights |-> <<>>, threats |-> <<>>]

getPortfolioFallback(documentData) ==
  [expectedReturn |-> "Modeling pending", score |-> NumV(50), insights |-> <<>>]

generateExecutiveSummary(results) ==
  [companyName |-> Get(results.document, "companyName"),
   industry |-> OrElse(Get(results.document, "industry"), Str(<<"t", "e", "c", "h", "n", "o", "l", "o", "g", "y">>)),
   fundingAmount |-> OrElse(Get(results.document, "fundingAmount"), Str(<<"S", "e", "r", "i", "e", "s", " ", "A">>)),
   marketPosition |-> FieldOr(results.market, "marketPosition", "competitive positioning"),
   marketSize |-> OrElse(Get(results.market, "marketSize"), Str(<<"s", "i", "g", "n", "i", "f", "i", "c", "a", "n", "t">>)),
   overallRisk |-> FieldOr(results.risk, "overallRisk", "moderate"),
   competitiveAdvantage |->
     FieldOr(results.competitive, "competitiveAdvantage", "differentiated approach"),
   expectedReturn |-> FieldOr(results.portfolio, "expectedReturn", "positive")]

\* x || d for a score in tenths
\* x || d for a score in tenths
ScoreOr(x, d) == IF Truthy(x) THEN x.n ELSE d

\* the weighted sum with the risk score taken as it is
weightedScoreRiskNotInverted(results) ==
    25 * ScoreOr(Get(results.market, "score"), 70)
  + 30 * ScoreOr(Get(results.risk, "riskScore"), 50)
  + 20 * ScoreOr(Get(results.competitive, "score"), 60)
  + 25 * ScoreOr(Get(results.portfolio, "score"), 70)

\* the weighted sum before rounding, in thousandths
weightedScore(results) ==
    25 * ScoreOr(Get(results.market, "score"), 70)
  + 30 * (100 - ScoreOr(Get(results.risk, "riskScore"), 50))
  + 20 * ScoreOr(Get(results.competitive, "score"), 60)
  + 25 * ScoreOr(Get(results.portfolio, "score"), 70)

\* Math.round(weightedScore * 10) / 10, in tenths
calculateInvestmentScore(results) == RoundDiv(weightedScore(results), 100)

InsightsOf(result) == IF "insights" \in DOMAIN result THEN result.insights ELSE <<>>

ImpactOrZero(insight) == ScoreOr(Get(insight, "impact"), 0)

\* the first five insights collected, sorted afterwards
extractKeyInsightsSliceFirst(results) ==
  Const(InsightsOf(results.market) \o InsightsOf(results.risk)
          \o InsightsOf(results.competitive) \o InsightsOf(results.portfolio),
        LAMBDA insights :
  Const(SubSeq(insights, 1, Min(5, Len(insights))), LAMBDA first :
    SortDescBy(first, [i \in 1..Len(first) |-> ImpactOrZero(first[i])])))

extractKeyInsights(results) ==
  Const(InsightsOf(results.market) \o InsightsOf(results.risk)
          \o InsightsOf(results.competitive) \o InsightsOf(results.portfolio),
        LAMBDA insights :
  Const(SortDescBy(insights, [i \in 1..Len(insights) |-> ImpactOrZero(insights[i])]),
        LAMBDA sorted :
    SubSeq(sorted, 1, Min(5, Len(sorted)))))

RisksOf(result) == IF "risks" \in DOMAIN result THEN result.risks ELSE <<>>

consolidateRisks(results) ==
  Const(RisksOf(results.risk) \o RisksOf(results.competitive) \o RisksOf(results.market),
        LAMBDA allRisks :
    SortDescBy(allRisks,
               [i \in 1..Len(allRisks) |-> ScoreOr(Get(allRisks[i], "severity"), 0)]))

\* the thresholds compared with > in place of >=
generateRecommendationStrict(results) ==
  Const(calculateInvestmentScore(results), LAMBDA score :
    IF score > 80 THEN [decision |-> "STRONG BUY", confidence |-> "High"]
    ELSE IF score > 60 THEN [decision |-> "PROCEED WITH CAUTION", confidence |-> "Medium"]
    ELSE [decision |-> "PASS", confidence |-> "High"])

\* the thresholds compared with the weighted sum before it is rounded
generateRecommendationUnrounded(results) ==
  Const(weightedScore(results), LAMBDA score :
    IF score >= 8000 THEN [decision |-> "STRONG BUY", confidence |-> "High"]
    ELSE IF score >= 6000 THEN [decision |-> "PROCEED WITH CAUTION", confidence |-> "Medium"]
    ELSE [decision |-> "PASS", confidence |-> "High"])

generateRecommendation(results) ==
  Const(calculateInvestmentScore(results), LAMBDA score :
    IF score >= 80 THEN [decision |-> "STRONG BUY", confidence |-> "High"]
    ELSE IF score >= 60 THEN [decision |-> "PROCEED WITH CAUTION", confidence |-> "Medium"]
    ELSE [decision |-> "PASS", confidence |-> "High"])

suggestNextSteps(results) ==
  Const([riskScore |-> Get(results.risk, "riskScore"),
         marketShare |-> Get(results.market, "marketShare")], LAMBDA v :
       (IF v.riskScore.t = "number" /\ v.riskScore.n > 70
        THEN << "Conduct detailed financial audit" >> ELSE <<>>)
    \o (IF "threats" \in DOMAIN results.competitive /\ Len(results.competitive.threats) > 0
        THEN << "Deep dive competitive analysis" >> ELSE <<>>)
    \o (IF v.marketShare.t = "number" /\ v.marketShare.n < 50
        THEN << "Validate market size assumptions" >> ELSE <<>>))

\* a TypeError in synthesizeResults: a property is read of an outcome that
\* is missing (results.market.score with results.market undefined)
synthesizeThrows(agentResults) ==
  \E part \in {"document", "market", "risk", "competitive", "portfolio"} :
    agentResults[part] = [t |-> "none"] \/ agentResults[part] = Undefined

synthesizeResults(agentResults) ==
  [executiveSummary |-> generateExecutiveSummary(agentResults),
   investmentScore |-> calculateInvestmentScore(agentResults),
   keyInsights |-> extractKeyInsights(agentResults),
   riskFactors |-> consolidateRisks(agentResults),
   recommendation |-> generateRecommendation(agentResults),
   nextSteps |-> suggestNextSteps(agentResults)]

(***************************************************************************)
(* MultiAgentOrchestrator.analyzeStartup as a state machine.  A run is one *)
(* call of analyzeStartup on the orchestrator; analysisStatus belongs to   *)
(* the orchestrator and is shared by its runs.                             *)
(***************************************************************************)
VARIABLES
  pc,             \* run -> where the call of analyzeStartup stands
  error,          \* run -> what rejected the call, "none" while it has not
  documentInput,  \* run -> the documentFile argument: "text", "file", "invalid"
  observer,       \* run -> the progressCallback argument: "present", "none", or
                  \*        "app" for the callback of App.handleDocumentUpload
  documentData,   \* run -> what document.analyze returned
  promise,        \* run -> task -> the promise returned by the run* wrapper
  choice,         \* run -> task -> what the environment did to the task
  settleOrder,    \* run -> the tasks in the order their promises settled
  analysisStatus, \* agent -> 'pending', 'processing', 'completed', 'failed'
  progress,       \* run -> the percentages passed to progressCallback so far
  agentResults,   \* run -> the argument of synthesizeResults
  bundle,         \* run -> the value analyzeStartup resolved to
  clock,          \* the time new Date() returns
  record,         \* SpecAgents: the record handed to an agent; SpecParsers: the
                  \*             value handed to a parser
  analysis,       \* SpecAgents: agent -> what analyze resolved to
  synthesis,      \* SpecSynth: what synthesizeResults returned
  app             \* the state of the App component and the runs it abandoned

vars == <<pc, error, documentInput, observer, documentData, promise, choice, settleOrder,
          analysisStatus, progress, agentResults, bundle, clock, record, analysis,
          synthesis, app>>

\* the calls of analyzeStartup made on the orchestrator
Runs == DOMAIN pc
Tasks == <<"market", "risk", "competitive", "portfolio">>
TaskSet == {Tasks[i] : i \in 1..Len(Tasks)}
Agents == {"document"} \cup TaskSet

None == [t |-> "none"]
Unsettled == [state |-> "none"]
Pending == [state |-> "pending"]
Fulfilled(value, at) == [state |-> "fulfilled", value |-> value, settledAt |-> at]
Rejected(at) == [state |-> "rejected", settledAt |-> at]

\* a race in place of Promise.all: settled as soon as one promise is, the
\* outcomes of the others missing
PromiseRace(promises) ==
  IF \E i \in 1..Len(promises) : promises[i].state = "rejected"
  THEN [state |-> "rejected"]
  ELSE IF \E i \in 1..Len(promises) : promises[i].state = "fulfilled"
  THEN [state |-> "fulfilled",
        values |-> [i \in 1..Len(promises) |->
                      IF promises[i].state = "fulfilled" THEN promises[i].value ELSE None]]
  ELSE [state |-> "pending"]

\* the values collected in the order of settlement instead of the array's
PromiseAllByCompletion(promises) ==
  IF \E i \in 1..Len(promises) : promises[i].state = "rejected"
  THEN [state |-> "rejected"]
  ELSE IF \A i \in 1..Len(promises) : promises[i].state = "fulfilled"
  THEN [state |-> "fulfilled",
        values |-> SortDescBy([i \in 1..Len(promises) |-> promises[i].value],
                              [i \in 1..Len(promises) |-> 0 - promises[i].settledAt])]
  ELSE [state |-> "pending"]

\* Promise.all over an array of promises: rejected as soon as one is,
\* fulfilled with the values in the array's order once all are
PromiseAll(promises) ==
  IF \E i \in 1..Len(promises) : promises[i].state = "rejected"
  THEN [state |-> "rejected"]
  ELSE IF \A i \in 1..Len(promises) : promises[i].state = "fulfilled"
  THEN [state |-> "fulfilled", values |-> [i \in 1..Len(promises) |-> promises[i].value]]
  ELSE [state |-> "pending"]

\* what the generative-text service does to each agent in a run
DocumentLlm ==
  {LlmError,
   LlmJson([companyName |-> Str(<<"N", "a", "a", "r", "i", "o">>), revenue |-> Str(<<"₹", "1", "4", "L">>),
            growthRate |-> Str(<<"2", "5", "%">>)])}
MarketLlm == {LlmError, LlmJson([confidence |-> "high"])}
RiskLlm == {LlmNoJson}
CompetitiveLlm ==
  {[mapping |-> LlmError, profile |-> LlmError],
   [mapping |-> LlmJson([primaryCategory |-> Str(<<"F", "i", "n", "t", "e", "c", "h">>)]), profile |-> LlmError]}
PortfolioLlm == {LlmBadJson}

\* the behaviours explored: each of them for a single call of analyzeStartup,
\* one of them when two calls share the orchestrator
Explored(behaviours) ==
  IF Cardinality(Runs) = 1 THEN behaviours ELSE {CHOOSE b \in behaviours : TRUE}

TaskLlm(task) ==
  CASE task = "market" -> Explored(MarketLlm)
    [] task = "risk" -> Explored(RiskLlm)
    [] task = "competitive" -> Explored(CompetitiveLlm)
    [] task = "portfolio" -> Explored(PortfolioLlm)

\* agents[task].analyze(documentData)
AgentAnalyze(task, d, llm, now) ==
  CASE task = "market" -> Market_analyze(d, llm, now)
    [] task = "risk" -> Risk_analyze(d, llm, now)
    [] task = "competitive" -> Competitive_analyze(d, llm, now)
    [] task = "portfolio" -> Portfolio_analyze(d, llm, now)

OrchestratorFallback(task, d) ==
  CASE task = "market" -> getMarketFallback(d)
    [] task = "risk" -> getRiskFallback(d)
    [] task = "competitive" -> getCompetitiveFallback(d)
    [] task = "portfolio" -> getPortfolioFallback(d)

CompletionPercent(task) ==
  CASE task = "market" -> 60
    [] task = "risk" -> 65
    [] task = "competitive" -> 70
    [] task = "portfolio" -> 75

\* a run* wrapper without its try/catch: the observer's error rejects the
\* wrapper's promise
runWrapperUncaught(task, d, result, observerPresent, observerThrows, now) ==
  IF observerPresent /\ observerThrows
  THEN [status |-> "completed", promise |-> Rejected(now), notified |-> TRUE]
  ELSE [status |-> "completed", promise |-> Fulfilled(result, now),
        notified |-> observerPresent]

\* the body of a run* wrapper once agent.analyze has resolved to result:
\* the status, the promise's settlement and whether the observer was called
runWrapper(task, d, result, observerPresent, observerThrows, now) ==
  IF observerPresent /\ observerThrows
  THEN [status |-> "failed", promise |-> Fulfilled(OrchestratorFallback(task, d), now),
        notified |-> TRUE]
  ELSE [status |-> "completed", promise |-> Fulfilled(result, now),
        notified |-> observerPresent]

\* agentStatus: this.analysisStatus puts the orchestrator's own status
\* object in the bundle, not a copy of it
StatusObject == [ref |-> "this.analysisStatus"]

\* bundle.agentStatus as a caller holding the bundle of run r reads it
agentStatus(r) ==
  IF bundle[r].agentStatus = StatusObject THEN analysisStatus ELSE bundle[r].agentStatus

\* what a call of progressCallback may do: throw only if there is one
ThrowChoices(r) == IF observer[r] = "present" THEN BOOLEAN ELSE {FALSE}

\* an observer that is told of the first milestone only
NotifiedOnce(r, percent) ==
  IF observer[r] # "none" /\ progress[r] = <<>>
  THEN Append(progress[r], percent)
  ELSE progress[r]

\* progressCallback && progressCallback(message, percent)
Notified(r, percent) ==
  IF observer[r] # "none" THEN Append(progress[r], percent) ELSE progress[r]

\* useState of App: the view, the results and the progress shown; abandoned
\* is no state of the component, it records the runs in flight at a Cancel
AppInitial ==
  [currentView |-> "upload", analysisResults |-> None, analysisProgress |-> 0,
   abandoned |-> {}]

\* App's progressCallback: setAnalysisProgress({message, percentage, ...})
AppNotified(r, percent) ==
  IF observer[r] = "app" THEN [app EXCEPT !.analysisProgress = percent] ELSE app

\* handleDocumentUpload up to its await: setCurrentView('analyzing'), then
\* the first notification of analyzeStartup
AppStarted(r) ==
  IF observer[r] = "app"
  THEN [app EXCEPT !.currentView = "analyzing", !.analysisProgress = 20]
  ELSE app

\* the catch of handleDocumentUpload
AppRejected(r) ==
  IF observer[r] = "app" THEN [app EXCEPT !.currentView = "upload"] ELSE app

\* transformedResults of handleDocumentUpload
transformedResults(document, results) ==
  [fileName |-> IF document = "text" THEN "Demo Analysis" ELSE "document.name",
   multiAgentResults |-> results,
   analysis |-> Get(results.rawData.document, "extractedData"),
   score |-> results.synthesizedReport.investmentScore,
   recommendation |-> results.synthesizedReport.recommendation,
   redFlags |-> results.synthesizedReport.riskFactors,
   insights |-> results.synthesizedReport.keyInsights,
   investmentReport |-> results.synthesizedReport.executiveSummary]

\* handleDocumentUpload after its await: the last notification, then
\* setAnalysisResults(transformedResults) and setCurrentView('results')
AppResolved(r, results) ==
  IF observer[r] = "app"
  THEN [app EXCEPT !.analysisProgress = 100,
                   !.analysisResults = transformedResults(documentInput[r], results),
                   !.currentView = "results"]
  ELSE app

\* time passes between one call of analyzeStartup, or of an agent, and the next
Tick == clock' = clock + 1

\* one array kept for the orchestrator and read by every run
parallelPromisesOfFirstRun(r) == [i \in 1..Len(Tasks) |-> promise["r1"][Tasks[i]]]

\* the array parallelPromises of a run, in the order of lines 43-48
parallelPromises(r) == [i \in 1..Len(Tasks) |-> promise[r][Tasks[i]]]

\* analyzeStartup calling the four run* wrappers together with
\* document.analyze, before the record exists
StartWithTasks(r) ==
  /\ pc[r] = "idle"
  /\ \E throws \in ThrowChoices(r) :
       /\ analysisStatus' = [a \in Agents |-> "processing"]
       /\ progress' = [progress EXCEPT ![r] = Notified(r, 20)]
       /\ pc' = [pc EXCEPT ![r] = IF throws THEN "rejected" ELSE "extracting"]
       /\ error' = [error EXCEPT ![r] = IF throws THEN "observer" ELSE "none"]
       /\ app' = IF throws THEN AppRejected(r) ELSE AppStarted(r)
       /\ promise' = [promise EXCEPT ![r] =
                        IF throws THEN promise[r] ELSE [t \in TaskSet |-> Pending]]
  /\ Tick
  /\ UNCHANGED <<documentInput, observer, documentData, choice, settleOrder,
                 agentResults, bundle, record, analysis, synthesis>>

\* analyzeStartup up to its first await: statuses reset, first notification,
\* document.analyze called
Start(r) ==
  /\ pc[r] = "idle"
  /\ \E throws \in ThrowChoices(r) :
       /\ analysisStatus' = [a \in Agents |-> "processing"]
       /\ progress' = [progress EXCEPT ![r] = Notified(r, 20)]
       /\ pc' = [pc EXCEPT ![r] = IF throws THEN "rejected" ELSE "extracting"]
       /\ error' = [error EXCEPT ![r] = IF throws THEN "observer" ELSE "none"]
       /\ app' = IF throws THEN AppRejected(r) ELSE AppStarted(r)
  /\ Tick
  /\ UNCHANGED <<documentInput, observer, documentData, promise, choice, settleOrder,
                 agentResults, bundle, record, analysis, synthesis>>

\* document.analyze resolves: status, second notification, the four run*
\* wrappers are called
DocumentResolves(r) ==
  /\ pc[r] = "extracting"
  /\ \E llm \in Explored(DocumentLlm), throws \in ThrowChoices(r) :
       /\ documentData' =
            [documentData EXCEPT ![r] = Document_analyze(documentInput[r], llm, clock)]
       /\ analysisStatus' = [analysisStatus EXCEPT !["document"] = "completed"]
       /\ progress' = [progress EXCEPT ![r] = Notified(r, 40)]
       /\ pc' = [pc EXCEPT ![r] = IF throws THEN "rejected" ELSE "parallel"]
       /\ error' = [error EXCEPT ![r] = IF throws THEN "observer" ELSE "none"]
       /\ promise' = [promise EXCEPT ![r] =
                        IF throws THEN promise[r] ELSE [t \in TaskSet |-> Pending]]
       /\ app' = IF throws THEN AppRejected(r) ELSE AppNotified(r, 40)
  /\ UNCHANGED <<clock, documentInput, observer, choice, settleOrder, agentResults, bundle,
                 record, analysis, synthesis>>

\* the orders of settlement explored: every order for the first call, the
\* order of the array for a second call on the same orchestrator
InExploredOrder(r, task) ==
  \A i \in 1..Len(Tasks) :
    (r # "r1" /\ Tasks[i] = task) =>
      \A j \in 1..(i - 1) : promise[r][Tasks[j]].state # "pending"

\* agents[task].analyze resolves and the rest of the run* wrapper runs
RunTask(r, task, Analyze(_, _, _)) ==
  /\ promise[r][task].state = "pending"
  /\ InExploredOrder(r, task)
  /\ \E llm \in TaskLlm(task), throws \in ThrowChoices(r) :
       \E w \in {runWrapper(task, documentData[r], Analyze(documentData[r], llm, clock),
                            observer[r] # "none", throws,
                            Len(settleOrder[r]) + 1)} :
         /\ promise' = [promise EXCEPT ![r][task] = w.promise]
         /\ analysisStatus' = [analysisStatus EXCEPT ![task] = w.status]
         /\ progress' = [progress EXCEPT ![r] =
                           IF w.notified THEN Append(@, CompletionPercent(task)) ELSE @]
         /\ choice' = [choice EXCEPT ![r][task] =
                         [llm |-> llm, throws |-> throws, now |-> clock]]
         /\ app' = IF w.notified THEN AppNotified(r, CompletionPercent(task)) ELSE app
  /\ settleOrder' = [settleOrder EXCEPT ![r] = Append(@, task)]
  /\ UNCHANGED <<clock, pc, error, documentInput, observer, documentData, agentResults, bundle,
                 record, analysis, synthesis>>

\* the four wrappers run while analyzeStartup awaits Promise.all
runMarketAnalysis(r) ==
  /\ pc[r] = "parallel"
  /\ RunTask(r, "market", Market_analyze)
runRiskAssessment(r) ==
  /\ pc[r] = "parallel"
  /\ RunTask(r, "risk", Risk_analyze)
runCompetitiveIntelligence(r) ==
  /\ pc[r] = "parallel"
  /\ RunTask(r, "competitive", Competitive_analyze)
runPortfolioImpact(r) ==
  /\ pc[r] = "parallel"
  /\ RunTask(r, "portfolio", Portfolio_analyze)

\* the join handing on a rewritten record in place of the extracted one
SynthesizeRewritingRecord(r) ==
  /\ pc[r] = "parallel"
  /\ \E all \in {PromiseAll(parallelPromises(r))} :
       /\ all.state # "pending"
       /\ IF all.state = "rejected"
          THEN /\ pc' = [pc EXCEPT ![r] = "rejected"]
               /\ error' = [error EXCEPT ![r] = "task"]
               /\ app' = AppRejected(r)
               /\ UNCHANGED <<progress, agentResults>>
          ELSE \E throws \in ThrowChoices(r) :
                 /\ progress' = [progress EXCEPT ![r] = Notified(r, 90)]
                 /\ pc' = [pc EXCEPT ![r] = IF throws THEN "rejected" ELSE "synthesized"]
                 /\ error' = [error EXCEPT ![r] = IF throws THEN "observer" ELSE "none"]
                 /\ app' = IF throws THEN AppRejected(r) ELSE AppNotified(r, 90)
                 /\ agentResults' =
                      [agentResults EXCEPT ![r] =
                         IF throws THEN @
                         ELSE [document |-> [extractedData |-> EmptyObject],
                               market |-> all.values[1],
                               risk |-> all.values[2],
                               competitive |-> all.values[3],
                               portfolio |-> all.values[4]]]
  /\ UNCHANGED <<clock, documentInput, observer, documentData, promise, choice, settleOrder,
                 analysisStatus, bundle, record, analysis, synthesis>>

\* await Promise.all(parallelPromises) resumes: third notification and
\* synthesizeResults on the destructured values
Synthesize(r) ==
  /\ pc[r] = "parallel"
  /\ \E all \in {PromiseAll(parallelPromises(r))} :
       /\ all.state # "pending"
       /\ IF all.state = "rejected"
          THEN /\ pc' = [pc EXCEPT ![r] = "rejected"]
               /\ error' = [error EXCEPT ![r] = "task"]
               /\ app' = AppRejected(r)
               /\ UNCHANGED <<progress, agentResults>>
          ELSE \E throws \in ThrowChoices(r) :
                 /\ progress' = [progress EXCEPT ![r] = Notified(r, 90)]
                 /\ pc' = [pc EXCEPT ![r] = IF throws THEN "rejected" ELSE "synthesized"]
                 /\ error' = [error EXCEPT ![r] = IF throws THEN "observer" ELSE "none"]
                 /\ app' = IF throws THEN AppRejected(r) ELSE AppNotified(r, 90)
                 /\ agentResults' =
                      [agentResults EXCEPT ![r] =
                         IF throws THEN @
                         ELSE [document |-> documentData[r],
                               market |-> all.values[1],
                               risk |-> all.values[2],
                               competitive |-> all.values[3],
                               portfolio |-> all.values[4]]]
  /\ UNCHANGED <<clock, documentInput, observer, documentData, promise, choice, settleOrder,
                 analysisStatus, bundle, record, analysis, synthesis>>

\* await synthesizeResults resumes: last notification, the bundle returned
Finish(r) ==
  /\ pc[r] = "synthesized"
  /\ \E throws \in ThrowChoices(r) :
       /\ progress' = [progress EXCEPT ![r] =
                         IF synthesizeThrows(agentResults[r]) THEN @ ELSE Notified(r, 100)]
       /\ pc' = [pc EXCEPT ![r] =
                   IF synthesizeThrows(agentResults[r]) \/ throws THEN "rejected" ELSE "done"]
       /\ error' = [error EXCEPT ![r] =
                      IF synthesizeThrows(agentResults[r]) THEN "synthesis"
                      ELSE IF throws THEN "observer" ELSE "none"]
       /\ bundle' = [bundle EXCEPT ![r] =
                       IF synthesizeThrows(agentResults[r]) \/ throws THEN @
                       ELSE [rawData |-> agentResults[r],
                             synthesizedReport |-> synthesizeResults(agentResults[r]),
                             agentStatus |-> StatusObject]]
       /\ app' = IF synthesizeThrows(agentResults[r]) \/ throws
                 THEN AppRejected(r)
                 ELSE AppResolved(r, [rawData |-> agentResults[r],
                                      synthesizedReport |-> synthesizeResults(agentResults[r]),
                                      agentStatus |-> StatusObject])
  /\ UNCHANGED <<clock, documentInput, observer, documentData, promise, choice, settleOrder,
                 analysisStatus, agentResults, record, analysis, synthesis>>

\* one call of analyzeStartup, with or without an observer, on a fresh
\* orchestrator
Init ==
  /\ pc = [r \in {"r1"} |-> "idle"]
  /\ error = [r \in Runs |-> "none"]
  /\ documentInput \in [Runs -> {"text", "file", "invalid"}]
  /\ observer \in [Runs -> {"present", "none"}]
  /\ documentData = [r \in Runs |-> None]
  /\ promise = [r \in Runs |-> [t \in TaskSet |-> Unsettled]]
  /\ choice = [r \in Runs |-> [t \in TaskSet |-> None]]
  /\ settleOrder = [r \in Runs |-> <<>>]
  /\ analysisStatus = [a \in Agents |-> "pending"]
  /\ progress = [r \in Runs |-> <<>>]
  /\ agentResults = [r \in Runs |-> None]
  /\ bundle = [r \in Runs |-> None]
  /\ clock = 0
  /\ record = None
  /\ analysis = None
  /\ synthesis = None
  /\ app = AppInitial

Next ==
  \E r \in Runs :
    \/ Start(r)
    \/ DocumentResolves(r)
    \/ runMarketAnalysis(r)
    \/ runRiskAssessment(r)
    \/ runCompetitiveIntelligence(r)
    \/ runPortfolioImpact(r)
    \/ Synthesize(r)
    \/ Finish(r)

Spec == Init /\ [][Next]_vars

\* every pending call returns and every continuation that can run is run
FairSpec == Spec /\ WF_vars(Next)

(***************************************************************************)
(* The App component: an upload starts a run with the App's callback as    *)
(* observer; Cancel and New Analysis both call handleNewAnalysis.  The App *)
(* builds an orchestrator at each render, so its runs need not share one;  *)
(* the statuses, kept in one place here, are not read by the App.          *)
(***************************************************************************)
\* DocumentUpload, rendered in the upload view, hands a document over
handleDocumentUpload(r) ==
  /\ app.currentView = "upload"
  /\ observer[r] = "app"
  /\ Start(r)

\* the Cancel button of the analyzing view or the button of the results view
handleNewAnalysis ==
  /\ app.currentView \in {"analyzing", "results"}
  /\ app' = [currentView |-> "upload", analysisResults |-> None, analysisProgress |-> 0,
             abandoned |-> app.abandoned
                             \cup {r \in Runs : pc[r] \in {"extracting", "parallel",
                                                            "synthesized"}}]
  /\ UNCHANGED <<pc, error, documentInput, observer, documentData, promise, choice,
                 settleOrder, analysisStatus, progress, agentResults, bundle, clock,
                 record, analysis, synthesis>>

\* two documents uploaded one after the other, the second after a Cancel
\* or after the results of the first
InitApp ==
  /\ pc = [r \in {"r1", "r2"} |-> "idle"]
  /\ error = [r \in Runs |-> "none"]
  /\ documentInput = [r \in Runs |-> IF r = "r1" THEN "text" ELSE "file"]
  /\ observer = [r \in Runs |-> "app"]
  /\ documentData = [r \in Runs |-> None]
  /\ promise = [r \in Runs |-> [t \in TaskSet |-> Unsettled]]
  /\ choice = [r \in Runs |-> [t \in TaskSet |-> None]]
  /\ settleOrder = [r \in Runs |-> <<>>]
  /\ analysisStatus = [a \in Agents |-> "pending"]
  /\ progress = [r \in Runs |-> <<>>]
  /\ agentResults = [r \in Runs |-> None]
  /\ bundle = [r \in Runs |-> None]
  /\ clock = 0
  /\ record = None
  /\ analysis = None
  /\ synthesis = None
  /\ app = AppInitial

NextApp ==
  \/ handleNewAnalysis
  \/ \E r \in Runs :
       \/ handleDocumentUpload(r)
       \/ DocumentResolves(r)
       \/ runMarketAnalysis(r)
       \/ runRiskAssessment(r)
       \/ runCompetitiveIntelligence(r)
       \/ runPortfolioImpact(r)
       \/ Synthesize(r)
       \/ Finish(r)

SpecApp == InitApp /\ [][NextApp]_vars

\* two calls of analyzeStartup on one orchestrator, with different
\* documents and no observer, free to overlap or to follow one another
InitOverlap ==
  /\ pc = [r \in {"r1", "r2"} |-> "idle"]
  /\ error = [r \in Runs |-> "none"]
  /\ documentInput = [r \in Runs |-> IF r = "r1" THEN "text" ELSE "invalid"]
  /\ observer = [r \in Runs |-> "none"]
  /\ documentData = [r \in Runs |-> None]
  /\ promise = [r \in Runs |-> [t \in TaskSet |-> Unsettled]]
  /\ choice = [r \in Runs |-> [t \in TaskSet |-> None]]
  /\ settleOrder = [r \in Runs |-> <<>>]
  /\ analysisStatus = [a \in Agents |-> "pending"]
  /\ progress = [r \in Runs |-> <<>>]
  /\ agentResults = [r \in Runs |-> None]
  /\ bundle = [r \in Runs |-> None]
  /\ clock = 0
  /\ record = None
  /\ analysis = None
  /\ synthesis = None
  /\ app = AppInitial

SpecOverlap == InitOverlap /\ [][Next]_vars

(***************************************************************************)
(* The four analysis agents called directly: analyze(record) for a record  *)
(* and a behaviour of the generative-text service.                         *)
(***************************************************************************)
\* the records handed to the agents
Records ==
  { EmptyObject,
    [revenue |-> Str(<<"₹", "1", "4", "L">>), growthRate |-> Str(<<"2", "5", "%">>),
     teamSize |-> Str(<<"1", "2">>), runway |-> Str(<<"8", " ", "m", "o", "n", "t", "h", "s">>)],
    Document_getDefaultStructuredData,
    [growthRate |-> Str(<<"N", "/", "A">>)],
    [revenue |-> Str(<<"₹", "1", "4", "L">>), growthRate |-> Str(<<"h", "i", "g", "h">>),
     teamSize |-> Str(<<"1", "2">>), runway |-> Str(<<"2", "4">>)],
    [growthRate |-> Str(<<>>), revenue |-> Str(<<"n", "o", "n", "e">>)],
    [revenue |-> NumV(1400000)],
    [teamSize |-> NumV(12), growthRate |-> Str(<<"2", "5", "%">>)],
    [growthRate |-> NumV(25)],
    [companyName |-> NumV(7)],
    [companyName |-> Str(<<"N", "a", "a", "r", "i", "o">>),
     industry |-> Str(<<"F", "o", "o", "d">>),
     revenue |-> Str(<<"₹", "5", "C", "r">>), growthRate |-> Str(<<"6", "0", "%">>),
     teamSize |-> Str(<<"2", "5">>), runway |-> Str(<<"2", "4", " ", "m", "o", "n", "t", "h", "s">>),
     burnRate |-> Str(<<"₹", "1", "0", "L">>), customers |-> Str(<<"5", "0", "0", "0">>),
     fundingAmount |-> Str(<<"₹", "2", "C", "r">>), fundingStage |-> Str(<<"S", "e", "e", "d">>),
     marketSize |-> Str(<<"$", "5", "0", "B">>)],
    [companyName |-> Str(<<"S", "t", "r", "i", "d", "e">>),
     revenue |-> Str(<<"₹", "1", "0", "L">>), growthRate |-> Str(<<"8", "0", "%">>),
     teamSize |-> Str(<<"2">>), runway |-> Str(<<"3", " ", "m", "o", "n", "t", "h", "s">>),
     burnRate |-> Str(<<"₹", "9", "0", "L">>), marketSize |-> Str(<<"$", "2", "T">>),
     fundingAmount |-> Str(<<"₹", "9", "C", "r">>)] }

\* what the generative-text service does to an agent called directly
MarketBehaviours ==
  MarketLlm \cup
    {LlmNoJson, LlmBadJson,
     LlmJson(EmptyObject),
     LlmJson([primaryIndustry |-> Str(<<"F", "o", "o", "d", " ", "T", "e", "c", "h">>),
              confidence |-> "high"]),
     LlmJson([primaryIndustry |-> Str(<<"D", "a", "t", "a">>), confidence |-> "low"])}
RiskBehaviours ==
  RiskLlm \cup
    {LlmError, LlmBadJson,
     LlmJson(EmptyObject),
     LlmJson([financialStress |-> "high", marketRisk |-> "high", teamRisk |-> "low"])}
CompetitiveBehaviours ==
  CompetitiveLlm \cup
    {[mapping |-> LlmJson(EmptyObject), profile |-> LlmNoJson],
     [mapping |-> LlmJson([primaryCategory |-> Str(<<"F", "i", "n", "t", "e", "c", "h">>),
                           competitiveSet |-> 2]),
      profile |-> LlmJson([name |-> "rival", funding |-> NumV(5)])],
     [mapping |-> LlmJson([primaryCategory |-> Str(<<"F", "o", "o", "d">>),
                           competitiveSet |-> 3]),
      profile |-> LlmBadJson]}
PortfolioBehaviours ==
  PortfolioLlm \cup {LlmError, LlmNoJson, LlmJson(EmptyObject)}

\* the number of direct calls that are followed
MaxCalls == 2

\* a caller awaits agent.analyze(record): analysis is what the call resolved to
CallAgent(task, behaviours, Analyze(_, _, _)) ==
  /\ clock < MaxCalls
  /\ \E llm \in behaviours :
       analysis' = [task |-> task, llm |-> llm, now |-> clock,
                    outcome |-> Analyze(record, llm, clock)]
  /\ Tick
  /\ UNCHANGED <<pc, error, documentInput, observer, documentData, promise, choice,
                 settleOrder, analysisStatus, progress, agentResults, bundle, record,
                 synthesis, app>>

CallMarket ==
  /\ record # None
  /\ CallAgent("market", MarketBehaviours, Market_analyze)
CallRisk ==
  /\ record # None
  /\ CallAgent("risk", RiskBehaviours, Risk_analyze)
CallCompetitive ==
  /\ record # None
  /\ CallAgent("competitive", CompetitiveBehaviours, Competitive_analyze)
CallPortfolio ==
  /\ record # None
  /\ CallAgent("portfolio", PortfolioBehaviours, Portfolio_analyze)

\* no run of analyzeStartup is in progress: only the agents are exercised
InitAgents ==
  /\ pc = [r \in {"r1"} |-> "idle"]
  /\ error = [r \in Runs |-> "none"]
  /\ documentInput = [r \in Runs |-> "text"]
  /\ observer = [r \in Runs |-> "none"]
  /\ documentData = [r \in Runs |-> None]
  /\ promise = [r \in Runs |-> [t \in TaskSet |-> Unsettled]]
  /\ choice = [r \in Runs |-> [t \in TaskSet |-> None]]
  /\ settleOrder = [r \in Runs |-> <<>>]
  /\ analysisStatus = [a \in Agents |-> "pending"]
  /\ progress = [r \in Runs |-> <<>>]
  /\ agentResults = [r \in Runs |-> None]
  /\ bundle = [r \in Runs |-> None]
  /\ clock = 0
  /\ record \in Records
  /\ analysis = None
  /\ synthesis = None
  /\ app = AppInitial

NextAgents == CallMarket \/ CallRisk \/ CallCompetitive \/ CallPortfolio

SpecAgents == InitAgents /\ [][NextAgents]_vars

(***************************************************************************)
(* The magnitude parsers of the four task agents called directly on a      *)
(* string, or on an absent value.                                          *)
(***************************************************************************)
\* amounts as the documents write them: a currency sign, a number, a unit
Amounts ==
  {prefix \o number \o unit :
     prefix \in {<<>>, <<"₹">>, <<"$">>},
     number \in {<<>>, <<"2">>, <<"1", "4">>, <<"1", ".", "5">>, <<"5", "0">>},
     unit \in {<<>>, <<"L">>, <<"M">>, <<"K">>, <<"C", "r">>, <<" ", "M", "R", "R">>}}

ParserInputs == {Undefined} \cup {Str(a) : a \in Amounts}

CallParser(task, Parse(_)) ==
  /\ analysis = None
  /\ analysis' = [parser |-> task, input |-> record,
                  outcome |-> IF ParseMagnitudeThrows(record) THEN Thrown
                              ELSE NumV(Parse(record))]
  /\ Tick
  /\ UNCHANGED <<pc, error, documentInput, observer, documentData, promise, choice,
                 settleOrder, analysisStatus, progress, agentResults, bundle, record,
                 synthesis, app>>

CallMarketParser ==
  /\ record \in ParserInputs
  /\ CallParser("market", Market_parseFinancialValue)
CallRiskParser ==
  /\ record \in ParserInputs
  /\ CallParser("risk", Risk_parseNumeric)
CallCompetitiveParser ==
  /\ record \in ParserInputs
  /\ CallParser("competitive", Competitive_parseNumeric)
CallPortfolioParser ==
  /\ record \in ParserInputs
  /\ CallParser("portfolio", Portfolio_parseNumeric)

InitParsers ==
  /\ pc = [r \in {"r1"} |-> "idle"]
  /\ error = [r \in Runs |-> "none"]
  /\ documentInput = [r \in Runs |-> "text"]
  /\ observer = [r \in Runs |-> "none"]
  /\ documentData = [r \in Runs |-> None]
  /\ promise = [r \in Runs |-> [t \in TaskSet |-> Unsettled]]
  /\ choice = [r \in Runs |-> [t \in TaskSet |-> None]]
  /\ settleOrder = [r \in Runs |-> <<>>]
  /\ analysisStatus = [a \in Agents |-> "pending"]
  /\ progress = [r \in Runs |-> <<>>]
  /\ agentResults = [r \in Runs |-> None]
  /\ bundle = [r \in Runs |-> None]
  /\ clock = 0
  /\ record \in ParserInputs
  /\ analysis = None
  /\ synthesis = None
  /\ app = AppInitial

NextParsers ==
  \/ CallMarketParser
  \/ CallRiskParser
  \/ CallCompetitiveParser
  \/ CallPortfolioParser

SpecParsers == InitParsers /\ [][NextParsers]_vars

(***************************************************************************)
(* The document agent called directly: analyze(documentInput) for each     *)
(* kind of input and each behaviour of the generative-text service.        *)
(***************************************************************************)
\* what the service answers to the structured-data prompt: a failure, a
\* text without JSON, JSON that does not parse, or an object
DocumentBehaviours ==
  DocumentLlm \cup {LlmNoJson, LlmBadJson}
    \cup {LlmJson(d) : d \in Records}
    \cup {LlmJson([revenue |-> Str(<<"$", "2", "M">>), customers |-> Str(<<"4", "0">>)]),
          LlmJson([teamSize |-> Str(<<"5">>), revenue |-> NumV(3)])}

\* a caller awaits document.analyze(documentInput)
CallDocument ==
  /\ clock < MaxCalls
  /\ \E r \in Runs, llm \in DocumentBehaviours :
       analysis' = [task |-> "document", input |-> documentInput[r], llm |-> llm,
                    now |-> clock,
                    outcome |-> Document_analyze(documentInput[r], llm, clock)]
  /\ Tick
  /\ UNCHANGED <<pc, error, documentInput, observer, documentData, promise, choice,
                 settleOrder, analysisStatus, progress, agentResults, bundle, record,
                 synthesis, app>>

InitDocument ==
  /\ pc = [r \in {"r1"} |-> "idle"]
  /\ error = [r \in Runs |-> "none"]
  /\ documentInput \in [Runs -> {"text", "file", "invalid"}]
  /\ observer = [r \in Runs |-> "none"]
  /\ documentData = [r \in Runs |-> None]
  /\ promise = [r \in Runs |-> [t \in TaskSet |-> Unsettled]]
  /\ choice = [r \in Runs |-> [t \in TaskSet |-> None]]
  /\ settleOrder = [r \in Runs |-> <<>>]
  /\ analysisStatus = [a \in Agents |-> "pending"]
  /\ progress = [r \in Runs |-> <<>>]
  /\ agentResults = [r \in Runs |-> None]
  /\ bundle = [r \in Runs |-> None]
  /\ clock = 0
  /\ record = None
  /\ analysis = None
  /\ synthesis = None
  /\ app = AppInitial

NextDocument == CallDocument

SpecDocument == InitDocument /\ [][NextDocument]_vars

(***************************************************************************)
(* The Synthesizer called directly: synthesizeResults on an extraction     *)
(* result and four outcomes.                                               *)
(***************************************************************************)
Insight(type, impact) == [type |-> type, insight |-> "text", impact |-> NumV(impact)]

\* outcomes of each task: computed results, the agent's fallback and the
\* orchestrator's fallback; scores are in tenths
SynthMarket ==
  { [score |-> NumV(79), insights |-> <<Insight("market-position", 9),
                                        Insight("growth", 8),
                                        Insight("opportunity", 6)>>],
    [score |-> NumV(80), insights |-> <<Insight("efficiency", 7),
                                        Insight("opportunity", 6)>>],
    [score |-> NumV(59), insights |-> <<[type |-> "note", insight |-> "text"],
                                        Insight("opportunity", 6)>>],
    [score |-> NumV(64), insights |-> <<Insight("opportunity", 6)>>,
     marketShare |-> NumV(40)],
    Market_getFallbackAnalysis(0),
    getMarketFallback(EmptyObject) }
SynthRisk ==
  { [riskScore |-> NumV(20), insights |-> <<Insight("prediction", 8),
                                            Insight("risk-profile", 6)>>],
    [riskScore |-> NumV(22), insights |-> <<Insight("warning", 9),
                                            Insight("prediction", 6),
                                            Insight("risk-profile", 6)>>],
    [riskScore |-> NumV(46), insights |-> <<Insight("prediction", 6)>>,
     risks |-> <<[risk |-> "runway", severity |-> NumV(3)],
                 [risk |-> "burn", severity |-> NumV(8)]>>],
    [riskScore |-> NumV(75), insights |-> <<Insight("warning", 5)>>],
    [riskScore |-> NumV(87), insights |-> <<>>],
    [riskScore |-> NaNV, insights |-> <<Insight("warning", 9)>>],
    Risk_getFallbackAnalysis(0),
    getRiskFallback(EmptyObject) }
SynthCompetitive ==
  { [score |-> NumV(80), insights |-> <<Insight("positioning", 8),
                                        Insight("opportunity", 7),
                                        Insight("competition", 6)>>],
    [score |-> NumV(60), insights |-> <<Insight("opportunity", 7),
                                        Insight("competition", 6),
                                        Insight("positioning", 5)>>,
     threats |-> <<"incumbent">>],
    Competitive_getFallbackAnalysis(0),
    getCompetitiveFallback(EmptyObject) }
SynthPortfolio ==
  { [score |-> NumV(80), insights |-> <<Insight("portfolio-impact", 8),
                                        Insight("return-potential", 7),
                                        Insight("exit-strategy", 7),
                                        Insight("diversification", 6)>>],
    [score |-> NumV(90), insights |-> <<Insight("return-potential", 9)>>],
    Portfolio_getFallbackAnalysis(0),
    getPortfolioFallback(EmptyObject) }

\* the arguments of a direct call of synthesizeResults
SynthInputs ==
  { [document |-> Document_getFallbackAnalysis(0), market |-> m, risk |-> k,
     competitive |-> c, portfolio |-> q] :
      m \in SynthMarket, k \in SynthRisk, c \in SynthCompetitive, q \in SynthPortfolio }

CallSynthesize ==
  /\ synthesis.report = None
  /\ synthesis' = [synthesis EXCEPT !.report =
                     IF synthesizeThrows(synthesis.input) THEN Thrown
                     ELSE synthesizeResults(synthesis.input)]
  /\ UNCHANGED <<pc, error, documentInput, observer, documentData, promise, choice,
                 settleOrder, analysisStatus, progress, agentResults, bundle, clock,
                 record, analysis, app>>

InitSynth ==
  /\ pc = [r \in {"r1"} |-> "idle"]
  /\ error = [r \in Runs |-> "none"]
  /\ documentInput = [r \in Runs |-> "text"]
  /\ observer = [r \in Runs |-> "none"]
  /\ documentData = [r \in Runs |-> None]
  /\ promise = [r \in Runs |-> [t \in TaskSet |-> Unsettled]]
  /\ choice = [r \in Runs |-> [t \in TaskSet |-> None]]
  /\ settleOrder = [r \in Runs |-> <<>>]
  /\ analysisStatus = [a \in Agents |-> "pending"]
  /\ progress = [r \in Runs |-> <<>>]
  /\ agentResults = [r \in Runs |-> None]
  /\ bundle = [r \in Runs |-> None]
  /\ clock = 0
  /\ record = None
  /\ analysis = None
  /\ \E input \in SynthInputs : synthesis = [input |-> input, report |-> None]
  /\ app = AppInitial

NextSynth == CallSynthesize

SpecSynth == InitSynth /\ [][NextSynth]_vars

(***************************************************************************)
(* Properties of a run of analyzeStartup                                   *)
(***************************************************************************)
\* C1: in every run, synthesizeResults has been invoked only if each of the
\* four tasks has delivered its outcome, whatever the order of completion:
\* the argument of synthesizeResults has no missing outcome
C1_SynthesisAfterAllOutcomes ==
  \A r \in Runs :
    agentResults[r] # None =>
      \A t \in TaskSet :
        /\ promise[r][t].state = "fulfilled"
        /\ agentResults[r][t] # None
        /\ "insights" \in DOMAIN agentResults[r][t]

\* synthesizeResults was invoked in a run whose tasks completed in the
\* reverse of the order they were started in
C1_Witness ==
  \E r \in Runs :
    /\ agentResults[r] # None
    /\ settleOrder[r] = <<"portfolio", "competitive", "risk", "market">>

\* what a task's outcome is by the task's own inputs: the record, what the
\* generative-text service did to its agent, and whether its notification
\* of the observer failed
OwnOutcome(r, t) ==
  IF choice[r][t].throws
  THEN OrchestratorFallback(t, documentData[r])
  ELSE AgentAnalyze(t, documentData[r], choice[r][t].llm, choice[r][t].now)

\* C2: a task that fails and takes its fallback path does not reject the
\* run, and every task's outcome is what that task's own inputs give,
\* whatever happened to the other tasks; the bundle of a completed run
\* holds these outcomes and a report
C2_FailureIsolated ==
  \A r \in Runs :
    /\ error[r] # "task"
    /\ \A t \in TaskSet :
         /\ promise[r][t].state # "rejected"
         /\ promise[r][t].state = "fulfilled" => promise[r][t].value = OwnOutcome(r, t)
    /\ bundle[r] # None =>
         /\ \A t \in TaskSet : bundle[r].rawData[t] = OwnOutcome(r, t)
         /\ "investmentScore" \in DOMAIN bundle[r].synthesizedReport

\* a run completed with a report although exactly one task had failed
C2_Witness ==
  \E r \in Runs :
    /\ bundle[r] # None
    /\ Cardinality({t \in TaskSet : analysisStatus[t] = "failed"}) = 1
    /\ Cardinality({t \in TaskSet : analysisStatus[t] = "completed"}) = 3

(***************************************************************************)
(* Properties of the agents called directly                                *)
(***************************************************************************)
\* an error is raised inside the try block of the agent's analyze
AgentThrows(task, d, llm) ==
  CASE task = "market" -> Market_throws(d, Market_classifyIndustry(llm))
    [] task = "risk" -> Risk_throws(d)
    [] task = "competitive" -> Competitive_throws(d, llm)
    [] task = "portfolio" -> Portfolio_throws(d)

AgentFallback(task, now) ==
  CASE task = "market" -> Market_getFallbackAnalysis(now)
    [] task = "risk" -> Risk_getFallbackAnalysis(now)
    [] task = "competitive" -> Competitive_getFallbackAnalysis(now)
    [] task = "portfolio" -> Portfolio_getFallbackAnalysis(now)

\* C3: for each of the four agents, analyze(record) resolves to an outcome
\* of the agent and never throws to its caller, for every record (empty,
\* with missing fields, with fields that are not strings) and every
\* behaviour of the generative-text service; when an error is raised inside
\* analyze, the outcome is the agent's fallback outcome
C3_AnalyzeNeverThrows ==
  analysis # None =>
    /\ analysis.outcome # Thrown
    /\ "agentName" \in DOMAIN analysis.outcome
    /\ "insights" \in DOMAIN analysis.outcome
    /\ AgentThrows(analysis.task, record, analysis.llm) =>
         analysis.outcome = AgentFallback(analysis.task, analysis.now)

\* the risk agent was called on a record with a field that is not a string,
\* an error was raised inside analyze, and the caller got the fallback
C3_Witness ==
  /\ analysis # None
  /\ analysis.task = "risk"
  /\ \E key \in DOMAIN record : ~IsString(record[key])
  /\ Risk_throws(record)
  /\ analysis.outcome = Risk_getFallbackAnalysis(analysis.now)

\* the headline score of an agent's outcome: riskScore for the risk agent,
\* score for the others
HeadlineScore(task, outcome) ==
  Get(outcome, IF task = "risk" THEN "riskScore" ELSE "score")

IsNumberWithin(x, low, high) == x.t = "number" /\ low <= x.n /\ x.n <= high

\* C4: every outcome an agent returns, for every malformed or empty record,
\* has a score that is a number within [1,10] (in tenths: [10,100]) and a
\* confidence that is a number within [0,100]
C4_ScoreAndConfidenceInRange ==
  analysis # None =>
    /\ IsNumberWithin(HeadlineScore(analysis.task, analysis.outcome), 10, 100)
    /\ IsNumberWithin(Get(analysis.outcome, "confidence"), 0, 100)

\* C5: each of the four outcomes handed to synthesizeResults has a score and
\* a confidence, whichever path produced it: the agent's result, the
\* agent's getFallbackAnalysis, or the orchestrator's fallback
C5_ScoreAndConfidencePresent ==
  \A r \in Runs :
    agentResults[r] # None =>
      \A t \in TaskSet :
        /\ ~IsNullish(HeadlineScore(t, agentResults[r][t]))
        /\ ~IsNullish(Get(agentResults[r][t], "confidence"))

(***************************************************************************)
(* Properties of synthesizeResults called directly.  Scores are in tenths, *)
(* the weighted sum in thousandths.                                        *)
(***************************************************************************)
\* the four scores of the argument are numbers within [1,10]
ScoresInRange(input) ==
  /\ IsNumberWithin(Get(input.market, "score"), 10, 100)
  /\ IsNumberWithin(Get(input.risk, "riskScore"), 10, 100)
  /\ IsNumberWithin(Get(input.competitive, "score"), 10, 100)
  /\ IsNumberWithin(Get(input.portfolio, "score"), 10, 100)

\* 0.25*market.score + 0.30*(10 - risk.riskScore) + 0.20*competitive.score
\* + 0.25*portfolio.score, in thousandths
WeightedSum(input) ==
    25 * input.market.score.n + 30 * (100 - input.risk.riskScore.n)
  + 20 * input.competitive.score.n + 25 * input.portfolio.score.n

\* C6 as stated: for four outcomes with scores within [1,10] the investment
\* score of the report equals the weighted sum
C6_ScoreEqualsWeightedSum ==
  (synthesis.report # None /\ ScoresInRange(synthesis.input)) =>
    100 * synthesis.report.investmentScore = WeightedSum(synthesis.input)

\* C6: for four outcomes with scores within [1,10] the investment score of
\* the report is the weighted sum 0.25*market.score + 0.30*(10 -
\* risk.riskScore) + 0.20*competitive.score + 0.25*portfolio.score rounded
\* to one decimal place: a multiple of 0.1 at most 0.05 away from it
C6_ScoreIsRoundedWeightedSum ==
  (synthesis.report # None /\ ScoresInRange(synthesis.input)) =>
    /\ 100 * synthesis.report.investmentScore - WeightedSum(synthesis.input) <= 50
    /\ WeightedSum(synthesis.input) - 100 * synthesis.report.investmentScore <= 50

\* a report whose investment score is the weighted sum 6.425 rounded to 6.4
C6_Witness ==
  /\ synthesis.report # None
  /\ ScoresInRange(synthesis.input)
  /\ WeightedSum(synthesis.input) = 6425
  /\ synthesis.report.investmentScore = 64

C8_DecisionAgreesWithScore ==
  synthesis.report # None =>
    /\ synthesis.report.recommendation.decision = "STRONG BUY"
         <=> synthesis.report.investmentScore >= 80
    /\ synthesis.report.recommendation.decision = "PROCEED WITH CAUTION"
         <=> (60 <= synthesis.report.investmentScore /\ synthesis.report.investmentScore < 80)
    /\ synthesis.report.recommendation.decision = "PASS"
         <=> synthesis.report.investmentScore < 60

\* a report with investmentScore 6.0, rounded up from 5.975, and PROCEED
\* WITH CAUTION
C8_Witness ==
  /\ synthesis.report # None
  /\ WeightedSum(synthesis.input) = 5975
  /\ synthesis.report.investmentScore = 60
  /\ synthesis.report.recommendation.decision = "PROCEED WITH CAUTION"

\* the insights of the four tasks, and the impact the sort reads from one
AllInsights(input) ==
  InsightsOf(input.market) \o InsightsOf(input.risk)
    \o InsightsOf(input.competitive) \o InsightsOf(input.portfolio)

Occurrences(seq, x) == Cardinality({i \in 1..Len(seq) : seq[i] = x})

\* C9: keyInsights has min(5, total number of insights) entries taken from
\* the four tasks' lists, impacts (a missing impact counting as 0) do not
\* increase along the list, and no omitted insight has a higher impact than
\* an included one
C9_TopFiveByImpact ==
  synthesis.report # None =>
    /\ Len(synthesis.report.keyInsights) = Min(5, Len(AllInsights(synthesis.input)))
    /\ \A i \in 1..Len(synthesis.report.keyInsights) :
         /\ Occurrences(synthesis.report.keyInsights, synthesis.report.keyInsights[i])
              <= Occurrences(AllInsights(synthesis.input), synthesis.report.keyInsights[i])
         /\ \A j \in (i + 1)..Len(synthesis.report.keyInsights) :
              ImpactOrZero(synthesis.report.keyInsights[i])
                >= ImpactOrZero(synthesis.report.keyInsights[j])
         /\ \A k \in 1..Len(AllInsights(synthesis.input)) :
              Occurrences(AllInsights(synthesis.input), AllInsights(synthesis.input)[k])
                  > Occurrences(synthesis.report.keyInsights, AllInsights(synthesis.input)[k])
                => ImpactOrZero(synthesis.report.keyInsights[i])
                     >= ImpactOrZero(AllInsights(synthesis.input)[k])

\* more than five insights, not in order of impact, one with the highest
\* impact collected after the fifth: five are kept
C9_Witness ==
  /\ synthesis.report # None
  /\ Len(AllInsights(synthesis.input)) > 5
  /\ \E k \in 6..Len(AllInsights(synthesis.input)) :
       \A i \in 1..5 : ImpactOrZero(AllInsights(synthesis.input)[k])
                          > ImpactOrZero(AllInsights(synthesis.input)[i])
  /\ Len(synthesis.report.keyInsights) = 5

\* C10: synthesizeResults is handed each task's outcome in the task's own
\* place whatever the order the tasks completed in, and the report of the
\* run is its value on the extraction result and these four outcomes in
\* every field: equal outcomes give equal reports
C10_ReportIndependentOfCompletionOrder ==
  \A r \in Runs :
    bundle[r] # None =>
      /\ \A t \in TaskSet : DOMAIN bundle[r].rawData[t] = DOMAIN promise[r][t].value
      /\ \E report \in {synthesizeResults([document |-> documentData[r],
                                            market |-> promise[r]["market"].value,
                                            risk |-> promise[r]["risk"].value,
                                            competitive |-> promise[r]["competitive"].value,
                                            portfolio |-> promise[r]["portfolio"].value])} :
           /\ bundle[r].synthesizedReport.investmentScore = report.investmentScore
           /\ bundle[r].synthesizedReport.recommendation = report.recommendation
           /\ bundle[r].synthesizedReport.keyInsights = report.keyInsights
           /\ bundle[r].synthesizedReport.riskFactors = report.riskFactors
           /\ bundle[r].synthesizedReport.executiveSummary = report.executiveSummary
           /\ bundle[r].synthesizedReport.nextSteps = report.nextSteps

\* a run completed whose tasks completed in an order other than the order
\* they were started in
C10_Witness ==
  \E r \in Runs :
    /\ bundle[r] # None
    /\ settleOrder[r] = <<"risk", "market", "portfolio", "competitive">>

\* the six parts of a report
ReportParts ==
  {"executiveSummary", "investmentScore", "keyInsights", "riskFactors", "recommendation",
   "nextSteps"}

\* C11: for every four outcomes the tasks and the fallback paths produce,
\* four fallback outcomes included, synthesizeResults completes without
\* error and its report has the six parts: executive summary, investment
\* score, key insights, risk factors, recommendation, next steps
C11_SynthesisNeverFails ==
  synthesis.report # None =>
    /\ synthesis.report # Thrown
    /\ DOMAIN synthesis.report = ReportParts
    /\ synthesis.report.investmentScore \in 10..100
    /\ synthesis.report.recommendation.decision
         \in {"STRONG BUY", "PROCEED WITH CAUTION", "PASS"}

\* the report of the four fallback outcomes of the orchestrator: score 5.0,
\* PASS, no insights
C11_Witness ==
  /\ synthesis.report # None
  /\ synthesis.input.market = getMarketFallback(EmptyObject)
  /\ synthesis.input.risk = getRiskFallback(EmptyObject)
  /\ synthesis.input.competitive = getCompetitiveFallback(EmptyObject)
  /\ synthesis.input.portfolio = getPortfolioFallback(EmptyObject)
  /\ synthesis.report.investmentScore = 50
  /\ synthesis.report.recommendation.decision = "PASS"
  /\ synthesis.report.keyInsights = <<>>

\* C12: document.analyze resolves for every input (text, file reference,
\* invalid input) and every behaviour of the service, and when the answer
\* to the structured-data prompt is a failure, a text without JSON or JSON
\* that does not parse, the structured record of the outcome is exactly
\* the default template
C12_ExtractionRecoveredLocally ==
  (analysis # None /\ analysis.task = "document") =>
    /\ analysis.outcome # Thrown
    /\ "extractedData" \in DOMAIN analysis.outcome
    /\ analysis.llm.kind # "json" =>
         analysis.outcome.extractedData = Document_getDefaultStructuredData
    /\ analysis.input = "invalid" =>
         analysis.outcome = Document_getFallbackAnalysis(analysis.now)

\* a text whose structured-data answer did not parse: the outcome is a
\* computed one, with the default template as its record
C12_Witness ==
  /\ analysis # None
  /\ analysis.task = "document"
  /\ analysis.input = "text"
  /\ analysis.llm = LlmBadJson
  /\ analysis.outcome # Document_getFallbackAnalysis(analysis.now)
  /\ analysis.outcome.extractedData = Document_getDefaultStructuredData

C14_StatusOfOwnRun ==
  \A r \in Runs :
    bundle[r] # None =>
      /\ agentStatus(r)["document"] = "completed"
      /\ \A t \in TaskSet :
           agentStatus(r)[t] = IF choice[r][t].throws THEN "failed" ELSE "completed"

(***************************************************************************)
(* The App and the runs it abandoned                                       *)
(***************************************************************************)
\* C15: once Cancel has abandoned a run, nothing the run does afterwards,
\* neither a progress notification nor its completion, changes the view,
\* the progress shown or the results shown by the App, also when a new
\* analysis has been started in the meantime
C15_AbandonedRunDiscarded ==
  [][\A r \in app.abandoned :
       (progress'[r] # progress[r] \/ bundle'[r] # bundle[r]) =>
         /\ app'.currentView = app.currentView
         /\ app'.analysisProgress = app.analysisProgress
         /\ app'.analysisResults = app.analysisResults]_vars

(***************************************************************************)
(* The magnitude parsers                                                   *)
(***************************************************************************)
\* C16: the magnitude parser of each of the four task agents returns
\* 1,400,000 for "₹14L" and 2,000,000 for "$2M", 0 for an absent value, an
\* empty string and a string without a digit, n for the plain number n,
\* and does not throw on a string
C16_MagnitudeExamples ==
  (analysis # None /\ "parser" \in DOMAIN analysis) =>
    /\ analysis.outcome # Thrown
    /\ analysis.input = Str(<<"₹", "1", "4", "L">>) => analysis.outcome = NumV(1400000)
    /\ analysis.input = Str(<<"$", "2", "M">>) => analysis.outcome = NumV(2000000)
    /\ ~Truthy(analysis.input) => analysis.outcome = NumV(0)
    /\ (Truthy(analysis.input) /\ KeepDigits(analysis.input.s) = <<>>) =>
         analysis.outcome = NumV(0)
    /\ analysis.input \in {Str(<<"2">>), Str(<<"1", "4">>), Str(<<"5", "0">>)} =>
         analysis.outcome = NumV(DigitsValue(analysis.input.s))

(***************************************************************************)
(* The course of a run                                                     *)
(***************************************************************************)
\* C17: in a run with an observer the observer is called at each milestone:
\* when extraction starts (20), when extraction has completed and the tasks
\* are launched (40), at the completion of each of the four tasks, whether
\* the task ended with its computed result or with a fallback (60, 65, 70,
\* 75, in the order of completion), and around synthesis (90 before it,
\* 100 once it is complete)
C17_ObserverNotifiedAtMilestones ==
  \A r \in Runs :
    observer[r] = "present" =>
      /\ pc[r] # "idle" => (Len(progress[r]) >= 1 /\ progress[r][1] = 20)
      /\ documentData[r] # None => (Len(progress[r]) >= 2 /\ progress[r][2] = 40)
      /\ \A i \in 1..Len(settleOrder[r]) :
           /\ Len(progress[r]) >= 2 + i
           /\ progress[r][2 + i] = CompletionPercent(settleOrder[r][i])
      /\ bundle[r] # None =>
           progress[r] = <<20, 40>>
                           \o [i \in 1..Len(Tasks) |-> CompletionPercent(settleOrder[r][i])]
                           \o <<90, 100>>

\* a run with an observer completed, one task having ended with the
\* orchestrator's fallback and another with its agent's computed result
C17_Witness ==
  \E r \in Runs :
    /\ observer[r] = "present"
    /\ bundle[r] # None
    /\ choice[r]["risk"].throws
    /\ ~choice[r]["market"].throws
    /\ Len(progress[r]) = 8

\* C18: when the extraction call and every call of every task return, a
\* run that was started reaches its end and returns a bundle with a
\* synthesized report
C18_EveryRunCompletes ==
  \A r \in {"r1"} :
    (pc[r] # "idle") ~>
      (pc[r] = "done" /\ bundle[r] # None /\ "synthesizedReport" \in DOMAIN bundle[r])

\* the stages of a run in their order; a run may also end rejected
NextStage(stage) ==
  CASE stage = "idle" -> "extracting"
    [] stage = "extracting" -> "parallel"
    [] stage = "parallel" -> "synthesized"
    [] stage = "synthesized" -> "done"
    [] OTHER -> stage

\* C19: a run goes from idle to extraction in flight, tasks in flight,
\* joined and done in this order; no task is started before the extraction
\* has returned its record; the four tasks are started together, each
\* once, in the step in which the record is returned and before the
\* orchestrator waits for them; the record does not change afterwards, and
\* the orchestrator goes on only when the four promises are fulfilled
C19_StagesInOrder ==
  [][\A r \in Runs :
       /\ pc'[r] \in {pc[r], NextStage(pc[r]), "rejected"}
       /\ pc[r] \in {"idle", "extracting"} =>
            \A t \in TaskSet : promise[r][t].state = "none"
       /\ (\E t \in TaskSet : promise[r][t].state = "none" /\ promise'[r][t].state # "none")
            => /\ pc[r] = "extracting"
               /\ pc'[r] = "parallel"
               /\ documentData'[r] # None
               /\ \A t \in TaskSet : promise'[r][t].state = "pending"
       /\ \A t \in TaskSet :
            /\ promise[r][t].state = "pending" => promise'[r][t].state # "none"
            /\ promise[r][t].state = "fulfilled" => promise'[r][t] = promise[r][t]
       /\ documentData[r] # None => documentData'[r] = documentData[r]
       /\ pc'[r] \in {"synthesized", "done"} =>
            \A t \in TaskSet : promise'[r][t].state = "fulfilled"]_vars

\* the record has been returned and the four tasks have just been started
C19_Witness ==
  \E r \in Runs :
    /\ pc[r] = "parallel"
    /\ documentData[r] # None
    /\ \A t \in TaskSet : promise[r][t].state = "pending"

(***************************************************************************)
(* The record the tasks read                                               *)
(***************************************************************************)
CompanyAttributes ==
  {"revenue", "growthRate", "teamSize", "runway", "burnRate", "marketSize",
   "fundingAmount", "companyName", "industry"}

\* documentData.revenue, documentData.growthRate, ... as the task agents
\* read them from the argument of analyze
TaskReads(r, attribute) == Get(documentData[r], attribute)

\* the structured record the extraction produced
Extracted(r) == Get(documentData[r], "extractedData")

\* C20: what a task reads for a company attribute is the value the
\* extraction produced for it, so an attribute the extraction populated is
\* not seen as absent by a task
C20_TasksReadExtractedAttributes ==
  \A r \in Runs :
    (documentData[r] # None /\ pc[r] = "parallel") =>
      \A attribute \in CompanyAttributes :
        Truthy(Get(Extracted(r), attribute)) =>
          /\ TaskReads(r, attribute).t # "undefined"
          /\ TaskReads(r, attribute) = Get(Extracted(r), attribute)

(***************************************************************************)
(* The generative-text calls inside the tasks                              *)
(***************************************************************************)
\* every attribute the record has is a string
WellFormed(d) == \A key \in DOMAIN d : IsString(d[key])

\* the generative-text call of the task failed: it threw, or its answer
\* held no JSON object, or JSON that does not parse
SecondaryFailed(task, llm) ==
  IF task = "competitive"
  THEN llm.mapping.kind # "json" /\ llm.profile.kind # "json"
  ELSE llm.kind # "json"

\* a field only the computed outcome of the task has
ComputedOnly(task) ==
  CASE task = "market" -> "growthAnalysis"
    [] task = "risk" -> "mitigationStrategies"
    [] task = "competitive" -> "industryMapping"
    [] task = "portfolio" -> "investmentParameters"

\* the outcome was computed with the task's default qualitative payload
DefaultPayloadUsed(task, d, outcome) ==
  CASE task = "market" -> outcome.industryData = Market_defaultIndustry
    [] task = "risk" ->
         outcome.successPrediction
           = Risk_predictSuccessProbability(d, Risk_defaultRiskFactors)
    [] task = "competitive" ->
         /\ outcome.industryMapping = Competitive_defaultMapping
         /\ \A i \in 1..Len(outcome.directCompetitors) :
              outcome.directCompetitors[i] = Competitive_fallbackProfile
    [] task = "portfolio" ->
         outcome.investmentParameters = Portfolio_getDefaultInvestmentParameters

\* C21: when the generative-text call of a task fails (it throws, or its
\* answer has no JSON object or JSON that does not parse), the task is not
\* aborted: for a record of strings, each of the four agents returns its
\* computed outcome, not its fallback, built on its default qualitative
\* payload and carrying its score
C21_SecondaryFailureNotFatal ==
  (/\ analysis # None
   /\ "task" \in DOMAIN analysis
   /\ analysis.task \in TaskSet
   /\ SecondaryFailed(analysis.task, analysis.llm)
   /\ WellFormed(record)) =>
    /\ ComputedOnly(analysis.task) \in DOMAIN analysis.outcome
    /\ analysis.outcome # AgentFallback(analysis.task, analysis.now)
    /\ DefaultPayloadUsed(analysis.task, record, analysis.outcome)
    /\ HeadlineScore(analysis.task, analysis.outcome) # Undefined

\* the market agent's classification call threw on the default record and
\* the agent returned its computed outcome on the fallback classification
C21_Witness ==
  /\ analysis # None
  /\ "task" \in DOMAIN analysis
  /\ analysis.task = "market"
  /\ analysis.llm = LlmError
  /\ record = Document_getDefaultStructuredData
  /\ analysis.outcome.industryData = Market_defaultIndustry
  /\ IsNumberWithin(analysis.outcome.score, 10, 100)

(***************************************************************************)
(* The shape of fallback outcomes                                          *)
(***************************************************************************)
\* the lowest confidence calculateConfidence of the task's agent can return
LowestComputedConfidence(task) ==
  CASE task = "market" -> 70
    [] task = "risk" -> Risk_calculateConfidence.n
    [] task = "competitive" -> Competitive_calculateConfidence.n
    [] task = "portfolio" -> Portfolio_calculateConfidence.n

\* the outcome is a fallback outcome: the agent's getFallbackAnalysis or the
\* orchestrator's fallback
IsFallbackOutcome(task, outcome) == ComputedOnly(task) \notin DOMAIN outcome

\* C22: every fallback outcome handed to synthesizeResults, from the agent's
\* getFallbackAnalysis or from the orchestrator's fallback, has a confidence
\* that is a number below every confidence the task's agent computes, and
\* exactly one insight
C22_FallbackShape ==
  \A r \in Runs :
    agentResults[r] # None =>
      \A t \in TaskSet :
        IsFallbackOutcome(t, agentResults[r][t]) =>
          /\ Get(agentResults[r][t], "confidence").t = "number"
          /\ Get(agentResults[r][t], "confidence").n < LowestComputedConfidence(t)
          /\ Len(Get(agentResults[r][t], "insights")) = 1

\* C23: the report of a run whose four task outcomes are all fallback
\* outcomes does not carry a recommendation with confidence 'High'
C23_FallbackReportNotHighConfidence ==
  \A r \in Runs :
    (/\ bundle[r] # None
     /\ \A t \in TaskSet : IsFallbackOutcome(t, bundle[r].rawData[t])) =>
      bundle[r].synthesizedReport.recommendation.confidence # "High"

(***************************************************************************)
(* The parts of the report and the outcomes they are built from            *)
(***************************************************************************)
HasStep(report, step) ==
  \E i \in 1..Len(report.nextSteps) : report.nextSteps[i] = step

\* the threats the competitive outcome identifies: those of its
\* threatOpportunityAnalysis and those of a threats list
ThreatsOf(outcome) ==
     (IF "threatOpportunityAnalysis" \in DOMAIN outcome
      THEN outcome.threatOpportunityAnalysis.immediateThreats
             \o outcome.threatOpportunityAnalysis.mediumTermThreats
      ELSE <<>>)
  \o (IF "threats" \in DOMAIN outcome THEN outcome.threats ELSE <<>>)

\* C24: the next steps of a report hold the financial-audit step exactly
\* when the risk outcome's riskScore is above 7, and the competitive-research
\* step exactly when the competitive outcome identifies at least one threat
C24_NextStepsMatchOutcomes ==
  \A r \in Runs :
    bundle[r] # None =>
      /\ HasStep(bundle[r].synthesizedReport, "Conduct detailed financial audit")
           <=> (/\ Get(bundle[r].rawData.risk, "riskScore").t = "number"
                /\ Get(bundle[r].rawData.risk, "riskScore").n > 70)
      /\ HasStep(bundle[r].synthesizedReport, "Deep dive competitive analysis")
           <=> Len(ThreatsOf(bundle[r].rawData.competitive)) > 0

\* the risk items an outcome identifies: its risks list and, for the risk
\* agent's outcome, the red flags it detected
RiskItemsOf(outcome) ==
  RisksOf(outcome)
    \o (IF "redFlags" \in DOMAIN outcome THEN outcome.redFlags ELSE <<>>)

InList(list, item) == \E i \in 1..Len(list) : list[i] = item

\* C25: the consolidated risk list of a report holds every risk item the
\* risk, competitive and market outcomes identify, the red flags of the
\* risk outcome among them, in descending order of severity
C25_RisksConsolidated ==
  \A r \in Runs :
    bundle[r] # None =>
      /\ \A t \in {"risk", "competitive", "market"} :
           \A i \in 1..Len(RiskItemsOf(bundle[r].rawData[t])) :
             InList(bundle[r].synthesizedReport.riskFactors,
                    RiskItemsOf(bundle[r].rawData[t])[i])
      /\ \A i \in 1..(Len(bundle[r].synthesizedReport.riskFactors) - 1) :
           ScoreOr(Get(bundle[r].synthesizedReport.riskFactors[i], "severity"), 0)
             >= ScoreOr(Get(bundle[r].synthesizedReport.riskFactors[i + 1], "severity"), 0)

\* C26: the executive summary of a report names the company extraction
\* found and states the market position, the overall risk, the competitive
\* advantage and the expected return of the task outcomes; a default phrase
\* stands only where the outcome has no such value
C26_SummaryStatesOutcomes ==
  \A r \in Runs :
    bundle[r] # None =>
      /\ Truthy(Get(Get(bundle[r].rawData.document, "extractedData"), "companyName")) =>
           bundle[r].synthesizedReport.executiveSummary.companyName
             = Get(Get(bundle[r].rawData.document, "extractedData"), "companyName")
      /\ "competitivePosition" \in DOMAIN bundle[r].rawData.market =>
           bundle[r].synthesizedReport.executiveSummary.marketPosition
             = bundle[r].rawData.market.competitivePosition.overallPosition
      /\ "overallRiskScore" \in DOMAIN bundle[r].rawData.risk =>
           bundle[r].synthesizedReport.executiveSummary.overallRisk # "moderate"
      /\ "competitiveAdvantage" \in DOMAIN bundle[r].rawData.competitive =>
           bundle[r].synthesizedReport.executiveSummary.competitiveAdvantage
             = bundle[r].rawData.competitive.competitiveAdvantage
      /\ "returnProjections" \in DOMAIN bundle[r].rawData.portfolio =>
           bundle[r].synthesizedReport.executiveSummary.expectedReturn # "positive"

(***************************************************************************)
(* What the steps of a run leave alone                                     *)
(***************************************************************************)
\* C27: once document.analyze has returned the record, no step of the run
\* changes it, and the record in the outcomes handed to synthesizeResults
\* and in the returned bundle is the one extraction returned; the status of
\* a task is written only by the orchestrator: by the reset at the start
\* of the run and by the task's own run* wrapper when the task settles
C27_RecordReadOnlyStatusByOrchestrator ==
  [][\A r \in Runs :
       /\ documentData[r] # None => documentData'[r] = documentData[r]
       /\ agentResults'[r] # None => agentResults'[r].document = documentData'[r]
       /\ bundle'[r] # None => bundle'[r].rawData.document = documentData'[r]
       /\ \A t \in TaskSet :
            analysisStatus'[t] # analysisStatus[t] =>
              \/ pc[r] = "idle" /\ analysisStatus'[t] = "processing"
              \/ /\ pc[r] = "parallel"
                 /\ promise[r][t].state = "pending"
                 /\ promise'[r][t].state = "fulfilled"
                 /\ analysisStatus'[t] \in {"completed", "failed"}]_vars

\* a run returned a bundle whose record is the one extraction returned,
\* with a company name, next to the computed outcome of the market agent
C27_Witness ==
  \E r \in Runs :
    /\ bundle[r] # None
    /\ bundle[r].rawData.document = documentData[r]
    /\ Truthy(Get(Get(documentData[r], "extractedData"), "companyName"))
    /\ ~IsFallbackOutcome("market", bundle[r].rawData.market)
    /\ analysisStatus["market"] = "completed"

(***************************************************************************)
(* The observer                                                            *)
(***************************************************************************)
\* C28: an exception thrown by the observer at a notification does not end
\* the run and changes no task's outcome or status: the outcome of every
\* settled task is the one its agent returned for the record, and its
\* status is 'completed'
C28_ObserverAdvisoryOnly ==
  \A r \in Runs :
    /\ error[r] # "observer"
    /\ \A t \in TaskSet :
         choice[r][t] # None =>
           /\ promise[r][t].state = "fulfilled"
           /\ promise[r][t].value
                = AgentAnalyze(t, documentData[r], choice[r][t].llm, choice[r][t].now)
           /\ analysisStatus[t] = "completed"

\* C29: the percentages the observer of a run is called with never
\* decrease, in whatever order the four tasks complete, and the call with
\* 100 is the last one
C29_PercentagesNeverDecrease ==
  \A r \in Runs :
    /\ \A i \in 1..(Len(progress[r]) - 1) : progress[r][i] <= progress[r][i + 1]
    /\ \A i \in 1..Len(progress[r]) : progress[r][i] = 100 => i = Len(progress[r])

\* C30: when a run returns, the status of each of the four tasks is
\* 'failed' exactly when the task's outcome in rawData is a fallback
\* outcome and 'completed' exactly when it is the agent's computed result;
\* no status is 'pending' or 'processing'
C30_StatusMatchesOutcome ==
  \A r \in Runs :
    bundle[r] # None =>
      \A t \in TaskSet :
        /\ analysisStatus[t] \in {"completed", "failed"}
        /\ analysisStatus[t] = "failed" <=> IsFallbackOutcome(t, bundle[r].rawData[t])

====
